---------------------------- MODULE Spec2Model ----------------------------
(***************************************************************************)
(* Session store, per-user session index, OAuth state store and the        *)
(* consistency repair job of headshotai-server.                            *)
(*                                                                         *)
(* Time is counted in ticks, TicksPerSecond ticks to the second, so that   *)
(* time.time() (a float) and int(time.time()) (whole seconds) differ.      *)
(* Timestamps kept as floats by the code (ts, ZSET scores, now) are in     *)
(* ticks; values the code passes through int() (exp, ttl) are in seconds.  *)
(***************************************************************************)
EXTENDS Integers, Sequences, FiniteSets, TLC

\* ------------------------------------------------------------------ bounds
TicksPerSecond == 2
\* The clock of the single-session runs: it advances tick by tick for
\* MaxFine ticks, may then jump by one minimum ttl (a minute with no
\* request), at most MaxJumps times, and advances tick by tick again.
MaxFine == 14
MaxJumps == 1
\* memory mode: no _user_sessions list is let grow beyond this length
MaxListLen == 4
\* the single session of those runs is created no later than this (ticks)
MaxLoginAt == 1
\* ... and its callback writes the record at most this long (ticks) after
\* it registered the id in the index
MaxSaveDelay == 1
\* pop_state calls in one run
MaxPops == 3
\* state lifetimes that pass in one run
MaxStateJumps == 2

\* ------------------------------------------------------- program constants
SESSION_TTL_DEFAULT == 3600
MIN_TTL == 60

\* ------------------------------------------------------------ value spaces
\* Session ids: opaque tokens; the order on the numbers stands for the
\* lexicographic order of the tokens (Redis breaks score ties by member).
SessionIds == 1..2
Subs == {"u1", "u2"}
\* e-mail as delivered by the provider ("" = none)
RawEmails == {"", "A@x"}
IndexKeys == {"a@x", "u1", "u2"}

\* str.lower().strip() on the e-mails of the model
NormalizeEmail(e) == IF e = "A@x" THEN "a@x" ELSE e

\* int(x) of a non-negative float given in ticks: whole seconds
IntSec(t) == t \div TicksPerSecond
\* a whole number of seconds as ticks
Ticks(s) == s * TicksPerSecond

MaxOf(a, b) == IF a >= b THEN a ELSE b
MinOf(a, b) == IF a <= b THEN a ELSE b

\* dict / keyspace helpers (functions with a varying domain)
Put(f, k, v) == [x \in (DOMAIN f) \cup {k} |-> IF x = k THEN v ELSE f[x]]
Drop(f, ks) == [x \in (DOMAIN f) \ ks |-> f[x]]
EmptyMap == [x \in {} |-> 0]

\* list helpers
RECURSIVE FilterOut(_, _)
FilterOut(lst, x) ==
    IF lst = <<>> THEN <<>>
    ELSE IF Head(lst) = x THEN FilterOut(Tail(lst), x)
         ELSE <<Head(lst)>> \o FilterOut(Tail(lst), x)
Elems(lst) == {lst[i] : i \in 1..Len(lst)}
Reverse(lst) == [i \in 1..Len(lst) |-> lst[Len(lst) + 1 - i]]
\* lst[-n:]
LastN(lst, n) == IF Len(lst) <= n THEN lst ELSE SubSeq(lst, Len(lst) - n + 1, Len(lst))

VARIABLES
    cfg,            \* process configuration read from the environment at import
    now,            \* time.time(), in ticks
    sess,           \* session records: Redis keys <prefix>:sess:<id> / _session_store
    ttlAt,          \* Redis mode: the instant (ticks) each sess key expires
    usess,          \* Redis mode: ZSETs <prefix>:usess:<idx>, member -> score
    user_sessions,  \* memory mode: _user_sessions, idx -> list of session ids
    stuck,          \* memory mode: a thread holds _lock and waits for it again
    inflight,       \* callbacks between index registration and session write
    report,         \* the report of the repair job that ran last
    hist,           \* history: what was created, slid and deleted so far, and
                    \* whether the logins ran one after the other (seq)
    last,           \* the call that ran last, with its arguments and result
    state_store,    \* OAuth states: Redis keys <prefix>:state:<s> / _state_store
    code_verifiers, \* Redis keys <prefix>:codev:<s> / _code_verifiers
    stateTtlAt,     \* Redis mode: the instant (ticks) the keys of a state expire
    state_lock,     \* memory mode: the thread inside "with _lock" of StateManager
    cb,             \* the callback threads: where each is in pop_state
    pops,           \* history: the states saved and what the pop_state calls returned
    pay,            \* the payment tables (coin_topups, users) and the webhook workers
    work            \* request workers part-way through a SessionManager call

stateVars == <<state_store, code_verifiers, stateTtlAt, state_lock, cb, pops>>
sessionVars == <<sess, ttlAt, usess, user_sessions, stuck, inflight, report,
                 hist, last>>
vars == <<cfg, now, sess, ttlAt, usess, user_sessions, stuck, inflight, report,
          hist, last, state_store, code_verifiers, stateTtlAt, state_lock, cb, pops,
          pay, work>>

\* the payment tables and the workers where a run does not use them
NoPay == [on |-> FALSE]
NoWork == [on |-> FALSE]

\* The "absent" results
NoSession == [sub |-> "", email |-> "", ts |-> -1, exp |-> -1]
NoneExp == -1

\* The store as one value, so that a handler's calls compose in order
Store == [sess |-> sess, ttlAt |-> ttlAt, usess |-> usess,
          user_sessions |-> user_sessions, stuck |-> stuck]

SetStore(S) ==
    /\ sess' = S.sess
    /\ ttlAt' = S.ttlAt
    /\ usess' = S.usess
    /\ user_sessions' = S.user_sessions
    /\ stuck' = S.stuck

\* ------------------------------------------------------------ Redis ZSET
ZLess(z, a, b) == z[a] < z[b] \/ (z[a] = z[b] /\ a < b)
ZRank(z, m) == Cardinality({x \in DOMAIN z : ZLess(z, x, m)})
\* ZRANGE key 0 -1: members by ascending (score, member)
ZSorted(z) == [i \in 1..Cardinality(DOMAIN z) |->
                  CHOOSE m \in DOMAIN z : ZRank(z, m) = i - 1]
\* ZRANGE key start -1 and ZRANGE key 0 stop (0-based, inclusive)
ZRangeFrom(z, start) ==
    IF start >= Cardinality(DOMAIN z) THEN <<>>
    ELSE SubSeq(ZSorted(z), start + 1, Cardinality(DOMAIN z))
\* the stop+1 members of the highest rank instead of the lowest
ZRangeTop(z, stop) ==
    SubSeq(ZSorted(z), MaxOf(1, Cardinality(DOMAIN z) - stop), Cardinality(DOMAIN z))
ZRangeTo(z, stop) == SubSeq(ZSorted(z), 1, MinOf(stop + 1, Cardinality(DOMAIN z)))

\* ------------------------------------------------------- SessionManager
\* save_session without the 60 s floor on the ttl
SaveTtl_NoFloor(exp, t) ==
    IF exp # 0 THEN exp - IntSec(t) ELSE SESSION_TTL_DEFAULT

\* The ttl save_session asks Redis for, in whole seconds
SaveTtl(exp, t) ==
    IF exp # 0 THEN MaxOf(MIN_TTL, exp - IntSec(t)) ELSE SESSION_TTL_DEFAULT

\* _enforce_max_sessions_memory(idx); held = the caller already holds _lock
enforce_max_sessions_memory(S, idx, held) ==
    IF cfg.MAX_USER_SESSIONS <= 0 THEN S
    ELSE IF held THEN [S EXCEPT !.stuck = TRUE]
    ELSE IF idx \notin DOMAIN S.user_sessions THEN S
    ELSE LET lst == S.user_sessions[idx]
             over == MaxOf(0, Len(lst) - cfg.MAX_USER_SESSIONS)
             gone == {lst[i] : i \in 1..over}
         IN [S EXCEPT !.user_sessions = Put(@, idx, SubSeq(lst, over + 1, Len(lst))),
                      !.sess = Drop(@, gone)]

save_session(S, sid, data, exp, t) ==
    IF cfg.redis
    THEN [S EXCEPT !.sess = Put(@, sid, data),
                   !.ttlAt = Put(@, sid, t + Ticks(SaveTtl(exp, t)))]
    ELSE IF S.stuck THEN S
    ELSE LET S1 == [S EXCEPT !.sess = Put(@, sid, data)]
         IN IF data.sub = "" THEN S1
            ELSE LET old == IF data.sub \in DOMAIN S1.user_sessions
                            THEN S1.user_sessions[data.sub] ELSE <<>>
                     S2 == [S1 EXCEPT !.user_sessions =
                                Put(@, data.sub, Append(old, sid))]
                 IN enforce_max_sessions_memory(S2, data.sub, TRUE)


get_session(S, sid) ==
    IF sid \in DOMAIN S.sess THEN S.sess[sid] ELSE NoSession

\* a delete that also takes the id out of every Redis index
delete_session_Unindexes(S, sid) ==
    [S EXCEPT !.sess = Drop(@, {sid}), !.ttlAt = Drop(@, {sid}),
              !.usess = [k \in IndexKeys |-> Drop(@[k], {sid})]]

\* delete_session(session_id)
delete_session(S, sid) ==
    IF cfg.redis
    THEN [S EXCEPT !.sess = Drop(@, {sid}), !.ttlAt = Drop(@, {sid})]
    ELSE IF S.stuck \/ sid \notin DOMAIN S.sess THEN S
    ELSE LET sub == S.sess[sid].sub
             S1 == [S EXCEPT !.sess = Drop(@, {sid})]
         IN IF sub = "" \/ sub \notin DOMAIN S1.user_sessions THEN S1
            ELSE LET rest == FilterOut(S1.user_sessions[sub], sid)
                 IN [S1 EXCEPT !.user_sessions =
                        IF rest = <<>> THEN Drop(@, {sub}) ELSE Put(@, sub, rest)]


RECURSIVE delete_sessions(_, _)
\* for sid in old: SessionManager.delete_session(sid)
delete_sessions(S, sids) ==
    IF sids = <<>> THEN S
    ELSE delete_sessions(delete_session(S, Head(sids)), Tail(sids))

\* cur_exp = data.get('exp') or int(now + SESSION_TTL_DEFAULT)
CurExp(data, t) ==
    IF data.exp # 0 THEN data.exp ELSE IntSec(t + Ticks(SESSION_TTL_DEFAULT))

\* new_exp_candidate with the absolute ceiling forgotten
NewExpCandidate_NoCeiling(data, t) ==
    IntSec(t + Ticks(cfg.SESSION_SLIDING_SECONDS))

\* new_exp_candidate, after the absolute ceiling
NewExpCandidate(data, t) ==
    LET cand == IntSec(t + Ticks(cfg.SESSION_SLIDING_SECONDS))
        deadline == IntSec(data.ts + Ticks(cfg.SESSION_ABSOLUTE_SECONDS))
    IN IF cfg.SESSION_ABSOLUTE_SECONDS > 0 /\ cand > deadline THEN deadline ELSE cand

\* the three early "return None" of refresh_session_if_needed
RefreshSkips(data, t) ==
    \/ ~cfg.SESSION_SLIDING_ENABLED
    \/ Ticks(CurExp(data, t)) <= t
    \/ /\ 2 * (Ticks(CurExp(data, t)) - t) > Ticks(cfg.SESSION_SLIDING_SECONDS)
       /\ NewExpCandidate(data, t) <= CurExp(data, t)

\* what refresh_session_if_needed returns when it returns
RefreshResult(data, t) ==
    IF RefreshSkips(data, t) THEN NoneExp ELSE NewExpCandidate(data, t)

\* the store after refresh_session_if_needed(session_id, data)
refresh_session_if_needed(S, sid, data, t) ==
    IF RefreshSkips(data, t) THEN S
    ELSE save_session(S, sid, [data EXCEPT !.exp = NewExpCandidate(data, t)],
                      NewExpCandidate(data, t), t)

user_index_id(email, sub) ==
    IF NormalizeEmail(email) # "" THEN NormalizeEmail(email) ELSE sub

add_session_to_user(S, email, sub, sid, ts) ==
    LET idx == user_index_id(email, sub)
    IN IF idx = "" THEN S
       ELSE IF cfg.redis
       THEN LET z1 == Put(S.usess[idx], sid, ts)
                S1 == [S EXCEPT !.usess[idx] = z1]
                over == Cardinality(DOMAIN z1) - cfg.MAX_USER_SESSIONS
                old == ZRangeTo(z1, over - 1)
            IN IF cfg.MAX_USER_SESSIONS > 0 /\ over > 0
               THEN [delete_sessions(S1, old) EXCEPT !.usess[idx] = Drop(z1, Elems(old))]
               ELSE S1
       ELSE IF S.stuck THEN S
       ELSE LET lst == IF idx \in DOMAIN S.user_sessions
                       THEN S.user_sessions[idx] ELSE <<>>
                S1 == [S EXCEPT !.user_sessions = Put(@, idx, Append(lst, sid))]
            IN enforce_max_sessions_memory(S1, idx, FALSE)

\* fetch_idx(i) of list_user_sessions (Redis mode): newest first
fetch_idx(S, i) ==
    LET total == Cardinality(DOMAIN S.usess[i])
    IN IF total = 0 THEN <<>>
       ELSE Reverse(ZRangeFrom(S.usess[i],
                               MaxOf(0, total - cfg.SESSION_LIST_RETURN_LIMIT)))

\* the session ids list_user_sessions inspects, in the order it inspects them
ListSids(S, email, sub) ==
    LET idx == user_index_id(email, sub)
    IN IF idx = "" THEN <<>>
       ELSE IF cfg.redis
       THEN IF fetch_idx(S, idx) = <<>> /\ sub # "" /\ sub # idx
                  /\ fetch_idx(S, sub) # <<>>
            THEN fetch_idx(S, sub)
            ELSE fetch_idx(S, idx)
       ELSE Reverse(LastN(IF idx \in DOMAIN S.user_sessions
                          THEN S.user_sessions[idx] ELSE <<>>,
                          cfg.SESSION_LIST_RETURN_LIMIT))

\* the ids of the entries list_user_sessions returns
ListResult(S, email, sub) ==
    SelectSeq(ListSids(S, email, sub), LAMBDA sid : sid \in DOMAIN S.sess)

\* the ids list_user_sessions collects in `stale` (Redis mode only)
ListStale(S, email, sub) ==
    IF cfg.redis
    THEN {sid \in Elems(ListSids(S, email, sub)) : sid \notin DOMAIN S.sess}
    ELSE {}

\* the store after list_user_sessions(email, sub)
list_user_sessions(S, email, sub) ==
    LET idx == user_index_id(email, sub)
        stale == ListStale(S, email, sub)
    IN IF idx = "" \/ stale = {} THEN S
       ELSE [S EXCEPT !.usess[idx] = Drop(@, stale)]

\* a sweep that takes an expired id only out of the list of its record's sub
clean_sessions_SubOnly(S, t) ==
    IF cfg.redis \/ S.stuck THEN S
    ELSE LET expired == {sid \in DOMAIN S.sess :
                            S.sess[sid].exp # 0 /\ Ticks(S.sess[sid].exp) < t}
             pruned == [k \in DOMAIN S.user_sessions |->
                          SelectSeq(S.user_sessions[k],
                                    LAMBDA x : ~(x \in expired /\ S.sess[x].sub = k))]
         IN [S EXCEPT !.sess = Drop(@, expired),
                      !.user_sessions = [k \in {x \in DOMAIN pruned : pruned[x] # <<>>}
                                           |-> pruned[k]]]

\* the store after clean_sessions() at time t
clean_sessions(S, t) ==
    IF cfg.redis \/ S.stuck THEN S
    ELSE LET expired == {sid \in DOMAIN S.sess :
                            S.sess[sid].exp # 0 /\ Ticks(S.sess[sid].exp) < t}
             pruned == [k \in DOMAIN S.user_sessions |->
                          SelectSeq(S.user_sessions[k], LAMBDA x : x \notin expired)]
             kept == {k \in DOMAIN pruned :
                          pruned[k] # <<>> \/ Elems(S.user_sessions[k]) \cap expired = {}}
         IN [S EXCEPT !.sess = Drop(@, expired),
                      !.user_sessions = [k \in kept |-> pruned[k]]]


\* ------------------------------------------------------------- handlers
Blocked == -2

\* In memory mode every SessionManager call takes _lock first: once a thread
\* is stuck holding it, no handler gets past its first call.
Runnable == cfg.redis \/ ~stuck

\* session ids whose cookie has been set (their save_session was reached)
Issued == DOMAIN hist.born

\* what a handler leaves in the history (and the bound on the lists)
Record(S, reg, born, slid) ==
    /\ \A k \in DOMAIN S.user_sessions : Len(S.user_sessions[k]) <= MaxListLen
    /\ hist' = [reg |-> reg, born |-> born, slid |-> slid,
                deleted |-> hist.deleted \cup ((DOMAIN sess) \ (DOMAIN S.sess)),
                seq |-> hist.seq /\ (reg = hist.reg \/ inflight = EmptyMap)]

Keep(S) == Record(S, hist.reg, hist.born, hist.slid)

Did(op, sid, data, ret, S) ==
    last' = [op |-> op, sid |-> sid, data |-> data, ret |-> ret,
             gone |-> (DOMAIN sess) \ (DOMAIN S.sess)]

\* the report of a repair run is on the table until the next operation
NoReport == [ran |-> FALSE]

\* Time passes by d ticks; Redis drops the keys whose ttl has run out
\* (a key is gone once the clock is past its expiry instant).
Tick(d) ==
    /\ now' = now + d
    /\ LET gone == {sid \in DOMAIN ttlAt : ttlAt[sid] < now + d}
       IN /\ sess' = IF cfg.redis THEN Drop(sess, gone) ELSE sess
          /\ ttlAt' = Drop(ttlAt, gone)
    /\ last' = [op |-> "tick", sid |-> 0, data |-> NoSession, ret |-> NoneExp,
                gone |-> {}]
    /\ report' = NoReport
    /\ LET gone == {st \in DOMAIN stateTtlAt : stateTtlAt[st] < now + d}
       IN /\ state_store' = IF cfg.redis THEN Drop(state_store, gone) ELSE state_store
          /\ code_verifiers' = IF cfg.redis THEN Drop(code_verifiers, gone)
                                ELSE code_verifiers
          /\ stateTtlAt' = Drop(stateTtlAt, gone)
    /\ UNCHANGED <<cfg, usess, user_sessions, stuck, inflight, hist,
                   state_lock, cb, pops, pay, work>>

\* A provider callback, after the state check and the token exchange, up to
\* and including the index registration.  L is the lifetime the provider or
\* the configuration grants (seconds).  Google lower-cases the e-mail,
\* Facebook stores it as delivered.
callback_register(provider, sub, raw, sid, L) ==
    /\ Runnable
    /\ sid \notin DOMAIN hist.reg
    /\ LET email == IF provider = "google" THEN NormalizeEmail(raw) ELSE raw
           payload == [sub |-> sub, email |-> email, ts |-> now,
                       exp |-> IntSec(now + Ticks(L))]
           S1 == add_session_to_user(Store, email, sub, sid, now)
       IN /\ SetStore(S1)
          /\ inflight' = Put(inflight, sid, payload)
          /\ Record(S1, Put(hist.reg, sid, now), hist.born, hist.slid)
          /\ Did("register", sid, payload, NoneExp, S1)
    /\ report' = NoReport
    /\ UNCHANGED <<cfg, now>>
    /\ UNCHANGED <<stateVars, pay, work>>

\* The rest of the callback: the session write (the cookie follows)
callback_save(sid) ==
    /\ Runnable
    /\ sid \in DOMAIN inflight
    /\ LET payload == inflight[sid]
           S1 == save_session(Store, sid, payload, payload.exp, now)
       IN /\ SetStore(S1)
          /\ inflight' = Drop(inflight, {sid})
          /\ Record(S1, hist.reg,
                    Put(hist.born, sid, [at |-> now, exp |-> payload.exp, ts |-> payload.ts]),
                    hist.slid)
          /\ Did("save", sid, payload, IF S1.stuck THEN Blocked ELSE payload.exp, S1)
    /\ report' = NoReport
    /\ UNCHANGED <<cfg, now>>
    /\ UNCHANGED <<stateVars, pay, work>>

\* GET /api/auth/session with cookie sid
session_info(sid) ==
    /\ Runnable
    /\ sid \in Issued
    /\ LET data == get_session(Store, sid)
           dead == data # NoSession /\ data.exp # 0 /\ Ticks(data.exp) < now
           S1 == IF data = NoSession THEN Store
                 ELSE IF dead THEN delete_session(Store, sid)
                 ELSE refresh_session_if_needed(Store, sid, data, now)
           slides == data # NoSession /\ ~dead /\ ~RefreshSkips(data, now)
       IN /\ SetStore(S1)
          /\ Record(S1, hist.reg, hist.born,
                    IF slides THEN hist.slid \cup {sid} ELSE hist.slid)
          /\ Did(IF data = NoSession THEN "session_info_absent"
                 ELSE IF dead THEN "session_info_expired" ELSE "refresh",
                 sid, data,
                 IF data = NoSession \/ dead THEN NoneExp
                 ELSE IF S1.stuck THEN Blocked ELSE RefreshResult(data, now),
                 S1)
    /\ report' = NoReport
    /\ UNCHANGED <<cfg, now, inflight>>
    /\ UNCHANGED <<stateVars, pay, work>>

\* GET /api/auth/sessions with cookie sid
sessions_list(sid) ==
    /\ Runnable
    /\ sid \in Issued
    /\ LET cur == get_session(Store, sid)
           ok == cur # NoSession /\ cur.sub # ""
           S1 == IF ok THEN list_user_sessions(Store, cur.email, cur.sub) ELSE Store
       IN /\ SetStore(S1)
          /\ Keep(S1)
          /\ Did(IF ok THEN "sessions_list" ELSE "sessions_list_401",
                 sid, cur, NoneExp, S1)
    /\ report' = NoReport
    /\ UNCHANGED <<cfg, now, inflight>>
    /\ UNCHANGED <<stateVars, pay, work>>

\* POST /api/auth/logout_session with cookie sid and body {session_id: target}
logout_session(sid, target) ==
    /\ Runnable
    /\ sid \in Issued
    /\ LET cur == get_session(Store, sid)
           tdata == get_session(Store, target)
           found == cur # NoSession /\ tdata # NoSession /\ tdata.sub = cur.sub
           S1 == IF found THEN delete_session(Store, target) ELSE Store
       IN /\ SetStore(S1)
          /\ Keep(S1)
          /\ Did(IF cur = NoSession THEN "logout_session_401"
                 ELSE IF found THEN "logout_session" ELSE "logout_session_404",
                 target, tdata, NoneExp, S1)
    /\ report' = NoReport
    /\ UNCHANGED <<cfg, now, inflight>>
    /\ UNCHANGED <<stateVars, pay, work>>

\* POST /api/auth/logout_all with cookie sid
logout_all(sid) ==
    /\ Runnable
    /\ sid \in Issued
    /\ LET cur == get_session(Store, sid)
           S1 == IF cur = NoSession THEN Store
                 ELSE delete_sessions(list_user_sessions(Store, cur.email, cur.sub),
                                      ListResult(Store, cur.email, cur.sub))
       IN /\ SetStore(S1)
          /\ Keep(S1)
          /\ Did(IF cur = NoSession THEN "logout_all_401" ELSE "logout_all",
                 sid, cur, NoneExp, S1)
    /\ report' = NoReport
    /\ UNCHANGED <<cfg, now, inflight>>
    /\ UNCHANGED <<stateVars, pay, work>>

\* POST /api/auth/logout with cookie sid
logout(sid) ==
    /\ Runnable
    /\ sid \in Issued
    /\ LET S1 == delete_session(Store, sid)
       IN /\ SetStore(S1)
          /\ Keep(S1)
          /\ Did("logout", sid, get_session(Store, sid), NoneExp, S1)
    /\ report' = NoReport
    /\ UNCHANGED <<cfg, now, inflight>>
    /\ UNCHANGED <<stateVars, pay, work>>

\* SessionManager.clean_sessions(), run by the providers' start routes
CleanSessions ==
    /\ Runnable
    /\ LET S1 == clean_sessions(Store, now)
       IN /\ SetStore(S1)
          /\ Keep(S1)
          /\ Did("clean_sessions", 0, NoSession, NoneExp, S1)
    /\ report' = NoReport
    /\ UNCHANGED <<cfg, now, inflight>>
    /\ UNCHANGED <<stateVars, pay, work>>

\* --------------------------------------------------------- StateManager
STATE_TTL == 600
States == {"s1", "s2"}
Callbacks == {"c1", "c2"}
NoThread == "-"
NoMeta == [exp |-> -1, provider |-> ""]
NoVerifier == "None"
Idle == [pc |-> "idle", state |-> "", meta |-> NoMeta, verifier |-> NoVerifier,
         late |-> FALSE]

\* the state was saved and its TTL has elapsed at time t
TtlElapsed(st, t) == st \in DOMAIN pops.at /\ t > pops.at[st] + Ticks(STATE_TTL)

\* the callbacks' check with the expiry test left out
StateValid_NoExpiry(meta, verifier, t) ==
    /\ meta # NoMeta
    /\ meta.provider = "google" => verifier \notin {NoVerifier, ""}

\* the check both callbacks make on what pop_state returned, negated:
\* "if not meta or meta.get('exp', 0) < time.time() [or not verifier]"
StateValid(meta, verifier, t) ==
    /\ meta # NoMeta
    /\ ~(Ticks(meta.exp) < t)
    /\ meta.provider = "google" => verifier \notin {NoVerifier, ""}

\* the code_verifier each provider's start route saves
VerifierOf(provider) == IF provider = "google" THEN "v" ELSE ""

\* "with _lock:" entered by a thread that does not wait for the lock
LockIgnored(l) == TRUE
\* "with _lock:" can be entered
LockFree(l) == l = NoThread

\* StateManager.save_state(state, redirect_uri, code_verifier, provider): one
\* MULTI/EXEC in Redis mode, one critical section in memory mode.  The state
\* is a fresh random token.
save_state(st, provider) ==
    /\ st \notin DOMAIN pops.saved
    /\ cfg.redis \/ LockFree(state_lock)
    /\ LET exp_ts == IntSec(now + Ticks(STATE_TTL))
       IN /\ state_store' = Put(state_store, st, [exp |-> exp_ts, provider |-> provider])
          /\ code_verifiers' = Put(code_verifiers, st, VerifierOf(provider))
          /\ stateTtlAt' = IF cfg.redis THEN Put(stateTtlAt, st, now + Ticks(STATE_TTL))
                           ELSE stateTtlAt
          /\ pops' = [pops EXCEPT !.saved = Put(@, st, exp_ts), !.at = Put(@, st, now)]
    /\ UNCHANGED <<cfg, now, state_lock, cb>>
    /\ UNCHANGED <<sessionVars, pay, work>>

\* a callback thread enters pop_state(st)
pop_call(c, st) ==
    /\ cb[c].pc = "idle"
    /\ pops.calls < MaxPops
    /\ cb' = [cb EXCEPT ![c] = [Idle EXCEPT !.pc = "call", !.state = st,
                                          !.late = TtlElapsed(st, now)]]
    /\ pops' = [pops EXCEPT !.calls = @ + 1,
                            !.raced = IF \E d \in Callbacks \ {c} :
                                             cb[d].pc # "idle" /\ cb[d].state = st
                                      THEN @ \cup {st} ELSE @]
    /\ UNCHANGED <<cfg, now, state_store, code_verifiers, stateTtlAt, state_lock>>
    /\ UNCHANGED <<sessionVars, pay, work>>

\* Redis mode: pipe.execute() of get, get, delete, delete (MULTI/EXEC)
pop_execute(c) ==
    /\ cfg.redis
    /\ cb[c].pc = "call"
    /\ LET st == cb[c].state
       IN /\ cb' = [cb EXCEPT ![c].pc = "return",
                              ![c].meta = IF st \in DOMAIN state_store
                                          THEN state_store[st] ELSE NoMeta,
                              ![c].verifier = IF st \in DOMAIN code_verifiers
                                              THEN code_verifiers[st] ELSE NoVerifier]
          /\ state_store' = Drop(state_store, {st})
          /\ code_verifiers' = Drop(code_verifiers, {st})
          /\ stateTtlAt' = Drop(stateTtlAt, {st})
    /\ UNCHANGED <<cfg, now, state_lock, pops>>
    /\ UNCHANGED <<sessionVars, pay, work>>

\* memory mode: with _lock:
pop_lock(c) ==
    /\ ~cfg.redis
    /\ cb[c].pc = "call"
    /\ LockFree(state_lock)
    /\ state_lock' = c
    /\ cb' = [cb EXCEPT ![c].pc = "locked"]
    /\ UNCHANGED <<cfg, now, state_store, code_verifiers, stateTtlAt, pops>>
    /\ UNCHANGED <<sessionVars, pay, work>>

\* meta = _state_store.pop(state, None)
pop_meta(c) ==
    /\ cb[c].pc = "locked"
    /\ LET st == cb[c].state
       IN /\ cb' = [cb EXCEPT ![c].pc = "meta",
                              ![c].meta = IF st \in DOMAIN state_store
                                          THEN state_store[st] ELSE NoMeta]
          /\ state_store' = Drop(state_store, {st})
    /\ UNCHANGED <<cfg, now, code_verifiers, stateTtlAt, state_lock, pops>>
    /\ UNCHANGED <<sessionVars, pay, work>>

\* the second pop reads the verifier and leaves it in _code_verifiers
pop_verifier_KeepsVerifier(c) ==
    /\ cb[c].pc = "meta"
    /\ LET st == cb[c].state
       IN cb' = [cb EXCEPT ![c].pc = "return",
                           ![c].verifier = IF st \in DOMAIN code_verifiers
                                           THEN code_verifiers[st] ELSE NoVerifier]
    /\ state_lock' = IF state_lock = c THEN NoThread ELSE state_lock
    /\ UNCHANGED <<cfg, now, state_store, code_verifiers, stateTtlAt, pops>>
    /\ UNCHANGED <<sessionVars, pay, work>>

\* verifier = _code_verifiers.pop(state, None), and the lock is released
pop_verifier(c) ==
    /\ cb[c].pc = "meta"
    /\ LET st == cb[c].state
       IN /\ cb' = [cb EXCEPT ![c].pc = "return",
                              ![c].verifier = IF st \in DOMAIN code_verifiers
                                              THEN code_verifiers[st] ELSE NoVerifier]
          /\ code_verifiers' = Drop(code_verifiers, {st})
    /\ state_lock' = IF state_lock = c THEN NoThread ELSE state_lock
    /\ UNCHANGED <<cfg, now, state_store, stateTtlAt, pops>>
    /\ UNCHANGED <<sessionVars, pay, work>>

\* return meta, verifier; the callback then checks what it got
pop_return(c) ==
    /\ cb[c].pc = "return"
    /\ LET st == cb[c].state
           absent == cb[c].meta = NoMeta /\ cb[c].verifier = NoVerifier
       IN pops' = [pops EXCEPT
                     !.some[st] = IF absent THEN @ ELSE @ + 1,
                     !.lost = IF /\ absent
                                 /\ st \in DOMAIN pops.saved
                                 /\ now < Ticks(pops.saved[st])
                              THEN @ \cup {st} ELSE @,
                     !.late = IF cb[c].late /\ ~absent THEN @ \cup {st} ELSE @,
                     !.lateOk = IF cb[c].late /\ StateValid(cb[c].meta, cb[c].verifier, now)
                                THEN @ \cup {st} ELSE @,
                     !.lateRejected =
                         IF cb[c].late /\ ~absent
                            /\ ~StateValid(cb[c].meta, cb[c].verifier, now)
                         THEN @ \cup {st} ELSE @]
    /\ cb' = [cb EXCEPT ![c] = Idle]
    /\ UNCHANGED <<cfg, now, state_store, code_verifiers, stateTtlAt, state_lock>>
    /\ UNCHANGED <<sessionVars, pay, work>>

\* StateManager.clean_expired(), run by the providers' start routes
clean_expired ==
    /\ ~cfg.redis
    /\ LockFree(state_lock)
    /\ LET obsolete == {st \in DOMAIN state_store : Ticks(state_store[st].exp) < now}
       IN /\ state_store' = Drop(state_store, obsolete)
          /\ code_verifiers' = Drop(code_verifiers, obsolete)
          /\ pops' = [pops EXCEPT !.swept = @ \cup obsolete]
    /\ UNCHANGED <<cfg, now, stateTtlAt, state_lock, cb>>
    /\ UNCHANGED <<sessionVars, pay, work>>

\* ----------------------------------------------- backend failures (C13-C15)
\* an exception left the call
Raised == -3
\* the backend calls of add_session_to_user, one of which may fail
AddCalls == {"zadd", "zcard", "zrange", "delete", "zrem"}

\* get_session(sid) when _redis.get raises: the call is outside the try of
\* lines 81-84, which covers json.loads only
get_session_failing(S, sid) ==
    [val |-> NoSession, raised |-> cfg.redis]

\* save_session when _redis.set raises: no try around it
save_session_failing(S, sid, data, exp, t) ==
    [S |-> S, raised |-> cfg.redis]

\* delete_session when _redis.delete raises: no try around it
delete_session_failing(S, sid) ==
    [S |-> S, raised |-> cfg.redis]

\* add_session_to_user (Redis mode) when the backend call `bad` raises: the
\* zadd and the eviction block each sit in a try/except that passes
add_session_to_user_failing(S, email, sub, sid, ts, bad) ==
    LET idx == user_index_id(email, sub)
        z1 == IF bad = "zadd" THEN S.usess[idx] ELSE Put(S.usess[idx], sid, ts)
        S1 == [S EXCEPT !.usess[idx] = z1]
        over == Cardinality(DOMAIN z1) - cfg.MAX_USER_SESSIONS
        old == ZRangeTo(z1, over - 1)
    IN IF idx = "" THEN [S |-> S, raised |-> FALSE]
       ELSE IF cfg.MAX_USER_SESSIONS <= 0 \/ bad \in {"zcard", "zrange"} \/ over <= 0
       THEN [S |-> S1, raised |-> FALSE]
       ELSE IF bad = "delete"
       THEN [S |-> S1, raised |-> FALSE]
       ELSE IF bad = "zrem"
       THEN [S |-> delete_sessions(S1, old), raised |-> FALSE]
       ELSE [S |-> [delete_sessions(S1, old) EXCEPT !.usess[idx] = Drop(z1, Elems(old))],
             raised |-> FALSE]

\* GET /api/auth/session while the read of the record fails
session_info_failing(sid) ==
    /\ cfg.redis
    /\ sid \in Issued
    /\ LET r == get_session_failing(Store, sid)
       IN /\ SetStore(Store)
          /\ Keep(Store)
          /\ Did("session_info_failing", sid, r.val,
                 IF r.raised THEN Raised ELSE NoneExp, Store)
    /\ report' = NoReport
    /\ UNCHANGED <<cfg, now, inflight>>
    /\ UNCHANGED <<stateVars, pay, work>>

\* a provider callback whose registration meets a failing backend call
callback_register_failing(provider, sub, raw, sid, L, bad) ==
    /\ cfg.redis
    /\ sid \notin DOMAIN hist.reg
    /\ LET email == IF provider = "google" THEN NormalizeEmail(raw) ELSE raw
           payload == [sub |-> sub, email |-> email, ts |-> now,
                       exp |-> IntSec(now + Ticks(L))]
           r == add_session_to_user_failing(Store, email, sub, sid, now, bad)
       IN /\ SetStore(r.S)
          /\ inflight' = IF r.raised THEN inflight ELSE Put(inflight, sid, payload)
          /\ Record(r.S, Put(hist.reg, sid, now), hist.born, hist.slid)
          /\ Did("register_failing", sid, payload,
                 IF r.raised THEN Raised ELSE NoneExp, r.S)
    /\ report' = NoReport
    /\ UNCHANGED <<cfg, now>>
    /\ UNCHANGED <<stateVars, pay, work>>

\* the rest of the callback while the session write fails: the request ends
\* in an error and no cookie is set
callback_save_failing(sid) ==
    /\ cfg.redis
    /\ sid \in DOMAIN inflight
    /\ LET payload == inflight[sid]
           r == save_session_failing(Store, sid, payload, payload.exp, now)
       IN /\ SetStore(r.S)
          /\ inflight' = Drop(inflight, {sid})
          /\ Keep(r.S)
          /\ Did("save_failing", sid, payload,
                 IF r.raised THEN Raised ELSE payload.exp, r.S)
    /\ report' = NoReport
    /\ UNCHANGED <<cfg, now>>
    /\ UNCHANGED <<stateVars, pay, work>>

\* POST /api/auth/logout while the delete fails
logout_failing(sid) ==
    /\ cfg.redis
    /\ sid \in Issued
    /\ LET r == delete_session_failing(Store, sid)
       IN /\ SetStore(r.S)
          /\ Keep(r.S)
          /\ Did("logout_failing", sid, get_session(Store, sid),
                 IF r.raised THEN Raised ELSE NoneExp, r.S)
    /\ report' = NoReport
    /\ UNCHANGED <<cfg, now, inflight>>
    /\ UNCHANGED <<stateVars, pay, work>>

\* --------------------------------------------------- single-session runs
SlideId == 1
SlideWindows == {4}
SlideCeilings == {0, 6}
SlideLifetimes == {1, 6, 8, 61}

InitStore ==
    /\ now = 0
    /\ sess = EmptyMap
    /\ ttlAt = EmptyMap
    /\ usess = [k \in IndexKeys |-> EmptyMap]
    /\ user_sessions = EmptyMap
    /\ stuck = FALSE
    /\ inflight = EmptyMap
    /\ report = NoReport
    /\ hist = [reg |-> EmptyMap, born |-> EmptyMap, slid |-> {}, deleted |-> {},
               seq |-> TRUE]
    /\ last = [op |-> "init", sid |-> 0, data |-> NoSession, ret |-> NoneExp,
               gone |-> {}]
    /\ state_store = EmptyMap
    /\ code_verifiers = EmptyMap
    /\ stateTtlAt = EmptyMap
    /\ state_lock = NoThread
    /\ cb = [c \in Callbacks |-> Idle]
    /\ pops = [saved |-> EmptyMap, at |-> EmptyMap, calls |-> 0,
               some |-> [st \in States |-> 0], raced |-> {}, lost |-> {},
               late |-> {}, lateOk |-> {}, lateRejected |-> {}, swept |-> {}]

InitSlide ==
    /\ cfg \in [redis : BOOLEAN, MAX_USER_SESSIONS : {0, 2},
                SESSION_SLIDING_ENABLED : BOOLEAN,
                SESSION_SLIDING_SECONDS : SlideWindows,
                SESSION_ABSOLUTE_SECONDS : SlideCeilings,
                SESSION_LIST_RETURN_LIMIT : {20}]
    /\ InitStore
    /\ pay = NoPay
    /\ work = NoWork

NextSlide ==
    \/ /\ now <= MaxLoginAt
       /\ \E raw \in RawEmails, L \in SlideLifetimes :
             callback_register("google", "u1", raw, SlideId, L)
    \/ /\ SlideId \in DOMAIN inflight
       /\ now <= inflight[SlideId].ts + MaxSaveDelay
       /\ callback_save(SlideId)
    \/ session_info(SlideId)
    \/ logout(SlideId)
    \/ CleanSessions
    \/ /\ now % Ticks(MIN_TTL) < MaxFine
       /\ Tick(1)
    \/ /\ now < MaxJumps * Ticks(MIN_TTL)
       /\ Tick(Ticks(MIN_TTL))

SpecSlide == InitSlide /\ [][NextSlide]_vars

\* ------------------------------------------------------ the repair job
SECONDS_PER_DAY == 86400

\* SessionCleanup.__init__: the counters of a fresh instance
NewStats ==
    [user_sessions_checked |-> 0, user_sessions_cleaned |-> 0,
     orphaned_sessions_found |-> 0, orphaned_sessions_removed |-> 0,
     empty_user_sessions_removed |-> 0, total_sessions_checked |-> 0,
     valid_sessions_found |-> 0]

\* the body of the loop of cleanup_orphaned_user_sessions for one index key,
\* on J = [S: the store, st: the counters]; dry = self.dry_run, ignored
OrphanKey_IgnoresDryRun(J, key, dry) ==
    LET z == J.S.usess[key]
        valid == {m \in DOMAIN z : m \in DOMAIN J.S.sess}
        orphaned == (DOMAIN z) \ valid
    IN [S |-> [J.S EXCEPT !.usess[key] = Drop(z, orphaned)],
        st |-> [J.st EXCEPT
                 !.user_sessions_checked = @ + 1,
                 !.total_sessions_checked = @ + Cardinality(DOMAIN z),
                 !.valid_sessions_found = @ + Cardinality(valid),
                 !.orphaned_sessions_found = @ + Cardinality(orphaned)]]

\* the same body, deleting the whole key as soon as it holds one orphan
OrphanKey_DropsKey(J, key, dry) ==
    LET z == J.S.usess[key]
        valid == {m \in DOMAIN z : m \in DOMAIN J.S.sess}
        orphaned == (DOMAIN z) \ valid
    IN [S |-> IF dry \/ orphaned = {} THEN J.S ELSE [J.S EXCEPT !.usess[key] = EmptyMap],
        st |-> [J.st EXCEPT
                 !.user_sessions_checked = @ + 1,
                 !.total_sessions_checked = @ + Cardinality(DOMAIN z),
                 !.valid_sessions_found = @ + Cardinality(valid),
                 !.orphaned_sessions_found = @ + Cardinality(orphaned)]]

\* the same body, counting but never removing
OrphanKey_NeverRemoves(J, key, dry) ==
    LET z == J.S.usess[key]
        valid == {m \in DOMAIN z : m \in DOMAIN J.S.sess}
        orphaned == (DOMAIN z) \ valid
    IN [S |-> J.S,
        st |-> [J.st EXCEPT
                 !.user_sessions_checked = @ + 1,
                 !.total_sessions_checked = @ + Cardinality(DOMAIN z),
                 !.valid_sessions_found = @ + Cardinality(valid),
                 !.orphaned_sessions_found = @ + Cardinality(orphaned)]]

\* the body of the loop of cleanup_orphaned_user_sessions for one index key,
\* on J = [S: the store, st: the counters]; dry = self.dry_run
OrphanKey(J, key, dry) ==
    LET z == J.S.usess[key]
        valid == {m \in DOMAIN z : m \in DOMAIN J.S.sess}
        orphaned == (DOMAIN z) \ valid
        st1 == [J.st EXCEPT
                 !.user_sessions_checked = @ + 1,
                 !.total_sessions_checked = @ + Cardinality(DOMAIN z),
                 !.valid_sessions_found = @ + Cardinality(valid),
                 !.orphaned_sessions_found = @ + Cardinality(orphaned),
                 !.orphaned_sessions_removed =
                     IF orphaned # {} /\ ~dry THEN @ + Cardinality(orphaned) ELSE @,
                 !.empty_user_sessions_removed =
                     IF valid = {} /\ ~dry THEN @ + 1 ELSE @,
                 !.user_sessions_cleaned =
                     IF valid = {} \/ orphaned # {} THEN @ + 1 ELSE @]
    IN IF z = EmptyMap THEN [S |-> J.S, st |-> [J.st EXCEPT !.user_sessions_checked = @ + 1]]
       ELSE [S |-> IF dry THEN J.S
                   ELSE [J.S EXCEPT !.usess[key] =
                            IF valid = {} THEN EmptyMap ELSE Drop(z, orphaned)],
             st |-> st1]

RECURSIVE OrphanKeys(_, _, _)
\* for user_key in user_session_keys: ...
OrphanKeys(J, keys, dry) ==
    IF keys = {} THEN J
    ELSE LET k == CHOOSE x \in keys : TRUE
         IN OrphanKeys(OrphanKey(J, k, dry), keys \ {k}, dry)

\* cleanup_orphaned_user_sessions(): KEYS <prefix>:usess:* names the ZSETs
\* that exist, which are the non-empty ones
cleanup_orphaned_user_sessions(J, dry) ==
    OrphanKeys(J, {k \in IndexKeys : J.S.usess[k] # EmptyMap}, dry)

\* every record, whatever its age
OverAge_AllRecords(S, days, t) == DOMAIN S.sess

\* the records cleanup_expired_sessions(max_age_days) collects at time t
OverAge(S, days, t) ==
    {sid \in DOMAIN S.sess : S.sess[sid].ts < t - Ticks(days * SECONDS_PER_DAY)}

cleanup_expired_sessions(J, dry, days, t) ==
    LET old == OverAge(J.S, days, t)
    IN IF old = {} \/ dry THEN J
       ELSE cleanup_orphaned_user_sessions(
                [J EXCEPT !.S.sess = Drop(@, old), !.S.ttlAt = Drop(@, old)], dry)

\* One run of the repair job (main of session_cleanup.py, the scheduled
\* job): a fresh instance, the orphan pass, and with sweep (--include-expired)
\* the bounded-age sweep.  The script exits at once without Redis.
repair(dry, sweep, days) ==
    /\ cfg.redis
    /\ LET J0 == [S |-> Store, st |-> NewStats]
           J1 == cleanup_orphaned_user_sessions(J0, dry)
           J2 == IF sweep THEN cleanup_expired_sessions(J1, dry, days, now) ELSE J1
       IN /\ SetStore(J2.S)
          /\ Keep(J2.S)
          /\ report' = [ran |-> TRUE, dry |-> dry, sweep |-> sweep, days |-> days,
                        stats |-> J2.st,
                        over_age |-> IF sweep THEN Cardinality(OverAge(J1.S, days, now))
                                     ELSE 0,
                        again |-> /\ last.op = "repair"
                                  /\ ~report.dry
                                  /\ report.sweep = sweep
                                  /\ report.days = days]
          /\ Did("repair", 0, NoSession, NoneExp, J2.S)
    /\ UNCHANGED <<cfg, now, inflight>>
    /\ UNCHANGED <<stateVars, pay, work>>

\* ------------------------------------------ the repair job under failures
\* the backend calls of one pass of the loop, one of which may fail
KeyCalls == {"zrange", "exists", "zrem", "delete"}

\* the body of the loop for one index key when the backend call `at` raises
\* (the first exists, for "exists"): the except of line 130 logs it and the
\* loop goes on.  A call the pass does not reach cannot fail.
OrphanKeyFailing(J, key, dry, at) ==
    LET z == J.S.usess[key]
        valid == {m \in DOMAIN z : m \in DOMAIN J.S.sess}
        orphaned == (DOMAIN z) \ valid
        st0 == [J.st EXCEPT !.user_sessions_checked = @ + 1]
        st1 == [st0 EXCEPT !.total_sessions_checked = @ + Cardinality(DOMAIN z)]
        st2 == [st1 EXCEPT !.valid_sessions_found = @ + Cardinality(valid),
                           !.orphaned_sessions_found = @ + Cardinality(orphaned)]
    IN IF at = "zrange" THEN [S |-> J.S, st |-> st0]
       ELSE IF z = EmptyMap THEN OrphanKey(J, key, dry)
       ELSE IF at = "exists" THEN [S |-> J.S, st |-> st1]
       ELSE IF at = "zrem" /\ orphaned # {} /\ ~dry THEN [S |-> J.S, st |-> st2]
       ELSE IF at = "delete" /\ valid = {} /\ ~dry
       THEN [S |-> [J.S EXCEPT !.usess[key] = EmptyMap],
             st |-> [st2 EXCEPT !.orphaned_sessions_removed = @ + Cardinality(orphaned)]]
       ELSE OrphanKey(J, key, dry)

RECURSIVE OrphanKeysIn_Aborts(_, _, _, _, _)
\* the loop that gives up at the key whose processing failed
OrphanKeysIn_Aborts(J, order, dry, bad, at) ==
    IF order = <<>> THEN J
    ELSE IF Head(order) = bad THEN OrphanKeyFailing(J, bad, dry, at)
    ELSE OrphanKeysIn_Aborts(OrphanKey(J, Head(order), dry), Tail(order), dry, bad, at)

RECURSIVE OrphanKeysIn(_, _, _, _, _)
\* for user_key in user_session_keys, in the order KEYS returned them, the
\* processing of key `bad` failing at call `at`
OrphanKeysIn(J, order, dry, bad, at) ==
    IF order = <<>> THEN J
    ELSE OrphanKeysIn(IF Head(order) = bad
                      THEN OrphanKeyFailing(J, bad, dry, at)
                      ELSE OrphanKey(J, Head(order), dry),
                      Tail(order), dry, bad, at)

\* the orders in which KEYS may return the keys of set K
Orders(K) == {o \in [1..Cardinality(K) -> K] : \A i, j \in DOMAIN o : o[i] = o[j] => i = j}

\* the index keys that exist
ExistingKeys(S) == {k \in IndexKeys : S.usess[k] # EmptyMap}

\* one run of the orphan pass during which the processing of `bad` fails
repair_failing(dry, order, bad, at) ==
    /\ cfg.redis
    /\ order \in Orders(ExistingKeys(Store))
    /\ bad \in ExistingKeys(Store)
    /\ LET J1 == OrphanKeysIn([S |-> Store, st |-> NewStats], order, dry, bad, at)
       IN /\ SetStore(J1.S)
          /\ Keep(J1.S)
          /\ report' = [ran |-> TRUE, dry |-> dry, sweep |-> FALSE, days |-> 0,
                        stats |-> J1.st, over_age |-> 0, again |-> FALSE,
                        bad |-> bad, at |-> at]
          /\ Did("repair_failing", 0, NoSession, NoneExp, J1.S)
    /\ UNCHANGED <<cfg, now, inflight>>
    /\ UNCHANGED <<stateVars, pay, work>>

\* --------------------------------------------------------- the whole system
\* bounds on the clock (whole minutes pass) and on the callbacks that are
\* between their two writes at one time
MaxMinutes == 2
MaxInflight == 1
\* lifetimes granted at login (seconds)
Lifetimes == {60}
\* --max-age-days / CLEANUP_MAX_AGE_DAYS
AgeLimits == {0, 1}
\* who logs in: <<provider, sub, e-mail as the provider delivers it>>
Logins == {<<"google", "u1", "">>, <<"google", "u1", "A@x">>,
           <<"facebook", "u2", "A@x">>}

Init ==
    /\ cfg \in [redis : BOOLEAN, MAX_USER_SESSIONS : {0, 1},
                SESSION_SLIDING_ENABLED : {FALSE},
                SESSION_SLIDING_SECONDS : {120},
                SESSION_ABSOLUTE_SECONDS : {0},
                SESSION_LIST_RETURN_LIMIT : {1, 20}]
    /\ InitStore
    /\ pay = NoPay
    /\ work = NoWork

Next ==
    \/ /\ Cardinality(DOMAIN inflight) < MaxInflight
       /\ \E who \in Logins, sid \in SessionIds, L \in Lifetimes :
             callback_register(who[1], who[2], who[3], sid, L)
    \/ \E sid \in DOMAIN inflight :
          /\ now <= inflight[sid].ts + MaxSaveDelay
          /\ callback_save(sid)
    \/ \E sid \in SessionIds : session_info(sid)
    \/ \E sid \in SessionIds : sessions_list(sid)
    \/ \E sid \in SessionIds, target \in SessionIds : logout_session(sid, target)
    \/ \E sid \in SessionIds : logout_all(sid)
    \/ \E sid \in SessionIds : logout(sid)
    \/ CleanSessions
    \/ \E dry \in BOOLEAN : repair(dry, FALSE, 0)
    \/ \E dry \in BOOLEAN, days \in AgeLimits : repair(dry, TRUE, days)
    \/ /\ now < MaxMinutes * Ticks(MIN_TTL)
       /\ Tick(Ticks(MIN_TTL))

Spec == Init /\ [][Next]_vars

\* ------------------------------------------------ logins against the cap
CapIds == 1..3
Caps == {1, 2}

InitCap ==
    /\ cfg \in [redis : BOOLEAN, MAX_USER_SESSIONS : Caps,
                SESSION_SLIDING_ENABLED : {FALSE},
                SESSION_SLIDING_SECONDS : {120},
                SESSION_ABSOLUTE_SECONDS : {0},
                SESSION_LIST_RETURN_LIMIT : {20}]
    /\ InitStore
    /\ pay = NoPay
    /\ work = NoWork

NextCap ==
    \/ \E who \in Logins, sid \in CapIds, L \in Lifetimes :
          callback_register(who[1], who[2], who[3], sid, L)
    \/ \E sid \in DOMAIN inflight :
          /\ now <= inflight[sid].ts + MaxSaveDelay
          /\ callback_save(sid)
    \/ repair(TRUE, FALSE, 0)
    \/ /\ now < MaxMinutes * Ticks(MIN_TTL)
       /\ Tick(Ticks(MIN_TTL))

SpecCap == InitCap /\ [][NextCap]_vars

\* ------------------------------------------------ the OAuth state store
InitState ==
    /\ cfg \in [redis : BOOLEAN, MAX_USER_SESSIONS : {0},
                SESSION_SLIDING_ENABLED : {FALSE},
                SESSION_SLIDING_SECONDS : {120},
                SESSION_ABSOLUTE_SECONDS : {0},
                SESSION_LIST_RETURN_LIMIT : {20}]
    /\ InitStore
    /\ pay = NoPay
    /\ work = NoWork

NextState ==
    \/ \E st \in States, provider \in {"google", "facebook"} : save_state(st, provider)
    \/ \E c \in Callbacks, st \in States : pop_call(c, st)
    \/ \E c \in Callbacks : pop_execute(c)
    \/ \E c \in Callbacks : pop_lock(c)
    \/ \E c \in Callbacks : pop_meta(c)
    \/ \E c \in Callbacks : pop_verifier(c)
    \/ \E c \in Callbacks : pop_return(c)
    \/ clean_expired
    \/ /\ now % Ticks(STATE_TTL) = 0
       /\ Tick(1)
    \/ /\ now < MaxStateJumps * Ticks(STATE_TTL)
       /\ Tick(Ticks(STATE_TTL))

SpecState == InitState /\ [][NextState]_vars

\* ------------------------------------------------ runs with failing calls
InitFault ==
    /\ cfg \in [redis : {TRUE}, MAX_USER_SESSIONS : {0, 1},
                SESSION_SLIDING_ENABLED : {FALSE},
                SESSION_SLIDING_SECONDS : {120},
                SESSION_ABSOLUTE_SECONDS : {0},
                SESSION_LIST_RETURN_LIMIT : {20}]
    /\ InitStore
    /\ pay = NoPay
    /\ work = NoWork

NextFault ==
    \/ /\ Cardinality(DOMAIN inflight) < MaxInflight
       /\ \E who \in Logins, sid \in SessionIds, L \in Lifetimes :
             callback_register(who[1], who[2], who[3], sid, L)
    \/ /\ Cardinality(DOMAIN inflight) < MaxInflight
       /\ \E who \in Logins, sid \in SessionIds, L \in Lifetimes, bad \in AddCalls :
             callback_register_failing(who[1], who[2], who[3], sid, L, bad)
    \/ \E sid \in DOMAIN inflight :
          /\ now <= inflight[sid].ts + MaxSaveDelay
          /\ callback_save(sid)
    \/ \E sid \in DOMAIN inflight :
          /\ now <= inflight[sid].ts + MaxSaveDelay
          /\ callback_save_failing(sid)
    \/ \E sid \in SessionIds : session_info_failing(sid)
    \/ \E sid \in SessionIds : logout(sid)
    \/ \E sid \in SessionIds : logout_failing(sid)
    \/ \E dry \in BOOLEAN, bad \in IndexKeys, at \in KeyCalls :
          \E order \in Orders(ExistingKeys(Store)) : repair_failing(dry, order, bad, at)
    \/ /\ now < MaxMinutes * Ticks(MIN_TTL)
       /\ Tick(Ticks(MIN_TTL))

SpecFault == InitFault /\ [][NextFault]_vars

\* ------------------------------------------------ sliding expiry (C1-C3)
\* the session handed to the refresh that ran last was unexpired
RefreshedUnexpired ==
    /\ last.op = "refresh"
    /\ cfg.SESSION_SLIDING_ENABLED
    /\ Ticks(last.data.exp) > now

\* its remaining lifetime was strictly greater than half the window
RemainingAboveHalf ==
    2 * (Ticks(last.data.exp) - now) > Ticks(cfg.SESSION_SLIDING_SECONDS)

\* C1: refresh_session_if_needed on an unexpired session whose remaining
\* lifetime is strictly greater than half the sliding window returns none
\* and leaves the stored record and its expiry as they were.
C1_NoSlideAboveHalf ==
    (RefreshedUnexpired /\ RemainingAboveHalf) =>
        /\ last.ret = NoneExp
        /\ get_session(Store, last.sid) = last.data

\* the expiry the sliding rule prescribes, in whole seconds
SlideTarget ==
    IF cfg.SESSION_ABSOLUTE_SECONDS = 0
    THEN IntSec(now) + cfg.SESSION_SLIDING_SECONDS
    ELSE MinOf(IntSec(now) + cfg.SESSION_SLIDING_SECONDS,
               IntSec(last.data.ts + Ticks(cfg.SESSION_ABSOLUTE_SECONDS)))

\* C2: refresh_session_if_needed on an unexpired session whose remaining
\* lifetime is at most half the sliding window rewrites the record with
\* expiry now + window (whole seconds), or min(now + window, created_at +
\* ceiling) when an absolute ceiling is configured, and returns that value.
C2_SlideAtHalf ==
    (RefreshedUnexpired /\ ~RemainingAboveHalf) =>
        /\ last.ret = SlideTarget
        /\ get_session(Store, last.sid) = [last.data EXCEPT !.exp = SlideTarget]
        /\ cfg.redis =>
             ttlAt[last.sid] = now + Ticks(MaxOf(MIN_TTL, SlideTarget - IntSec(now)))

\* a slide at half-life on which the absolute ceiling was the binding term
C2_Witness ==
    /\ RefreshedUnexpired /\ ~RemainingAboveHalf
    /\ cfg.SESSION_ABSOLUTE_SECONDS > 0
    /\ last.ret = IntSec(last.data.ts + Ticks(cfg.SESSION_ABSOLUTE_SECONDS))
    /\ last.ret < IntSec(now) + cfg.SESSION_SLIDING_SECONDS
    /\ now % TicksPerSecond # 0

\* the session was saved (the save returned), never slid, never deleted
SavedUntouched(sid) ==
    /\ sid \in Issued
    /\ sid \notin hist.slid
    /\ sid \notin hist.deleted
    /\ Runnable

\* C3 (as claimed): a session saved with lifetime T and never slid is
\* returned by get_session at every time before its expiry and is absent at
\* every time strictly after it, in both backend modes, with no sweep run.
C3_AbsentRightAfterExpiry ==
    SavedUntouched(SlideId) =>
        /\ now < Ticks(hist.born[SlideId].exp) => get_session(Store, SlideId) # NoSession
        /\ now > Ticks(hist.born[SlideId].exp) => get_session(Store, SlideId) = NoSession

\* C3 (amended): in the remote store a session saved at time t with expiry
\* exp, never slid or deleted, is returned at every time up to
\* t + max(60, exp - int(t)) seconds and is absent afterwards; in the
\* in-process fallback it is returned until a sweep, an expiry check or a
\* logout deletes it.  In both modes it is returned while now < exp.
C3_ReturnedUntilTtl ==
    SavedUntouched(SlideId) =>
        LET b == hist.born[SlideId]
            live == now <= b.at + Ticks(MaxOf(MIN_TTL, b.exp - IntSec(b.at)))
            rec == get_session(Store, SlideId)
        IN /\ cfg.redis => (rec # NoSession <=> live)
           /\ ~cfg.redis => rec # NoSession
           /\ rec # NoSession => (rec.exp = b.exp /\ rec.ts = b.ts)
           /\ now < Ticks(b.exp) => rec # NoSession

\* the remote store has let a saved, untouched session of more than a
\* minute's lifetime run out
C3_Witness ==
    /\ SavedUntouched(SlideId)
    /\ cfg.redis
    /\ hist.born[SlideId].exp - IntSec(hist.born[SlideId].at) > MIN_TTL
    /\ get_session(Store, SlideId) = NoSession

\* ------------------------------------------- the index and its cap (C4)
\* the members of the index idx in store S
IndexMembers(S, idx) ==
    IF cfg.redis THEN DOMAIN S.usess[idx]
    ELSE IF idx \in DOMAIN S.user_sessions THEN Elems(S.user_sessions[idx]) ELSE {}

\* the store after the step
StoreNext == [sess |-> sess', ttlAt |-> ttlAt', usess |-> usess',
              user_sessions |-> user_sessions', stuck |-> stuck']

\* the index key of the identity the last call was made for
LastIdx == user_index_id(last.data.email, last.data.sub)

\* C4: with a cap N > 0, every add_session_to_user leaves at most N members
\* in the identity's index; when the index already held N, exactly N remain,
\* no evicted member was created after a remaining one, and no evicted
\* member has a session record.
C4_CapEvictsOldest ==
    [][(last'.op = "register" /\ cfg.MAX_USER_SESSIONS > 0) =>
         LET idx == user_index_id(last'.data.email, last'.data.sub)
             before == IndexMembers(Store, idx)
             after == IndexMembers(StoreNext, idx)
             evicted == (before \cup {last'.sid}) \ after
         IN /\ Cardinality(after) <= cfg.MAX_USER_SESSIONS
            /\ Cardinality(before) = cfg.MAX_USER_SESSIONS =>
                  /\ Cardinality(after) = cfg.MAX_USER_SESSIONS
                  /\ Cardinality(evicted) = 1
                  /\ \A e \in evicted :
                        /\ \A m \in after : hist'.reg[e] <= hist'.reg[m]
                        /\ e \notin DOMAIN sess'
      ]_vars

\* an (N+1)-th registration has just evicted an older session whose record
\* existed, and the index is full
C4_Witness ==
    /\ last.op = "register"
    /\ cfg.MAX_USER_SESSIONS = 2
    /\ Cardinality(IndexMembers(Store, LastIdx)) = 2
    /\ \E e \in last.gone :
          /\ e \notin IndexMembers(Store, LastIdx)
          /\ \A m \in IndexMembers(Store, LastIdx) : hist.reg[e] < hist.reg[m]

\* --------------------------------------------------- the repair job (C6-C9)
\* the orphans of store S: index memberships without a session record
Orphans(S) ==
    {km \in IndexKeys \X SessionIds :
        km[2] \in DOMAIN S.usess[km[1]] /\ km[2] \notin DOMAIN S.sess}

\* C6: a mutating run of the orphan pass counts exactly the memberships
\* without a record, removes exactly those, and keeps every membership
\* that has one; no record is touched.
C6_OrphanPassExact ==
    [][(last'.op = "repair" /\ ~report'.dry /\ ~report'.sweep) =>
         /\ report'.stats.orphaned_sessions_found = Cardinality(Orphans(Store))
         /\ report'.stats.orphaned_sessions_removed = Cardinality(Orphans(Store))
         /\ \A k \in IndexKeys :
               DOMAIN usess'[k] = {m \in DOMAIN usess[k] : m \in DOMAIN sess}
         /\ \A k \in IndexKeys : \A m \in DOMAIN usess'[k] : usess'[k][m] = usess[k][m]
         /\ sess' = sess
      ]_vars

\* a mutating orphan pass has removed an orphan from an index in which a
\* member with a live record remains
C6_Witness ==
    /\ last.op = "repair" /\ ~report.dry /\ ~report.sweep
    /\ report.stats.orphaned_sessions_removed = 1
    /\ report.stats.valid_sessions_found = 1
    /\ report.stats.user_sessions_checked = 1
    /\ \E k \in IndexKeys : \E m \in DOMAIN usess[k] : m \in DOMAIN sess

\* C7 (as claimed): list_user_sessions has removed, when it returns, every
\* inspected member without a live record from the index it read.
ReadIndex(S, email, sub) ==
    IF cfg.redis /\ fetch_idx(S, user_index_id(email, sub)) = <<>>
       /\ sub # "" /\ sub # user_index_id(email, sub) /\ fetch_idx(S, sub) # <<>>
    THEN sub ELSE user_index_id(email, sub)

C7_ListRemovesStale ==
    [][last'.op = "sessions_list" =>
         \A m \in Elems(ListSids(Store, last'.data.email, last'.data.sub)) :
            m \notin DOMAIN sess =>
               m \notin IndexMembers(StoreNext,
                                     ReadIndex(Store, last'.data.email, last'.data.sub))
      ]_vars

\* C8: a run of the repair job that follows a mutating run with the same
\* options, nothing else having happened in between, finds no orphan.
C8_SecondRunFindsNone ==
    (report.ran /\ report.again) => report.stats.orphaned_sessions_found = 0

\* the second of two mutating runs, the first of which removed an orphan
C8_Witness ==
    /\ report.ran /\ report.again /\ ~report.dry
    /\ report.stats.user_sessions_checked > 0
    /\ \E k \in IndexKeys : usess[k] # EmptyMap
    /\ hist.reg # EmptyMap
    /\ \E sid \in DOMAIN hist.reg : \A k \in IndexKeys : sid \notin DOMAIN usess[k]

\* C9: a dry run changes no index and no session record, with or without
\* the bounded-age sweep.
C9_DryRunChangesNothing ==
    [][(last'.op = "repair" /\ report'.dry) =>
          /\ usess' = usess
          /\ sess' = sess
          /\ ttlAt' = ttlAt
      ]_vars

\* a dry run with the sweep has found both an orphan and an over-age record
C9_Witness ==
    /\ last.op = "repair" /\ report.dry /\ report.sweep
    /\ report.stats.orphaned_sessions_found > 0
    /\ report.over_age > 0
    /\ Orphans(Store) # {}

\* ------------------------------------------------------------ logout (C10)
\* C10 (as claimed): after logout or logout_session of a session, it is
\* neither in the session store nor a member of its identity's index.
C10_LogoutLeavesNoTrace ==
    (last.op \in {"logout", "logout_session"} /\ last.data # NoSession) =>
        /\ last.sid \notin DOMAIN sess
        /\ last.sid \notin IndexMembers(Store, LastIdx)

\* ------------------------------------------------- OAuth state (C5)
\* C5: of the pop_state calls made on one state, at most one returns
\* something; every other call returns (absent, absent).
C5_StatePoppedOnce ==
    \A st \in States : pops.some[st] <= 1

\* two pop_state calls on one saved state were in flight together; one got
\* the state and the other came back empty-handed inside the TTL window
C5_Witness ==
    \E st \in States :
        /\ st \in pops.raced
        /\ st \in pops.lost
        /\ pops.some[st] = 1

\* --------------------------------------------- the login callback (C11)
\* C11 (as claimed): the callback writes the session record before it
\* registers the id, so no login in progress has its id in an index while
\* its record does not exist.
C11_RecordBeforeMembership ==
    \A sid \in DOMAIN inflight :
        sid \notin DOMAIN sess =>
            sid \notin IndexMembers(Store, user_index_id(inflight[sid].email,
                                                         inflight[sid].sub))


\* ----------------------------------------- eviction leaves no orphan (C12)
\* the saved sessions that are in no index any more
Evicted == {sid \in DOMAIN hist.born : \A k \in IndexKeys : sid \notin DOMAIN usess[k]}

\* no saved record has run out in the store
NoneExpired == \A sid \in DOMAIN hist.born : sid \in DOMAIN sess \/ sid \in hist.deleted

\* C12 (as claimed): after logins under a cap N > 0 that ran one after the other and
\* all completed, no evicted session id has a record or an index
\* membership, and a dry-run orphan pass made before any record has run
\* out finds no orphan.
C12_EvictionLeavesNoOrphan ==
    (cfg.redis /\ cfg.MAX_USER_SESSIONS > 0 /\ hist.seq /\ inflight = EmptyMap) =>
        /\ \A sid \in Evicted : sid \notin DOMAIN sess
        /\ (last.op = "repair" /\ report.dry /\ NoneExpired) =>
               report.stats.orphaned_sessions_found = 0

\* ------------------------------------------------- failures (C13-C15)
\* C13 (as claimed): when the backend fails during a session read,
\* get_session returns absent and the request is treated as not
\* authenticated; no error reaches the request path.
C13_ReadFailsClosed ==
    last.op = "session_info_failing" => (last.ret # Raised /\ last.data = NoSession)

\* C14 (as claimed): save_session, delete_session and add_session_to_user
\* (the index add and the eviction) surface a failure of their backend
\* write to the caller.
C14_WriteFailsLoudly ==
    last.op \in {"save_failing", "logout_failing", "register_failing"} =>
        last.ret = Raised

\* C15: when the processing of one index key fails during the orphan
\* pass, every key of the scan is still visited, every other key is
\* repaired as in a failure-free pass (whether it came before or after the
\* failure), and no session record is touched.
C15_PassSurvivesFailure ==
    [][last'.op = "repair_failing" =>
         /\ report'.stats.user_sessions_checked = Cardinality(ExistingKeys(Store))
         /\ \A k \in IndexKeys \ {report'.bad} :
               DOMAIN usess'[k] = IF report'.dry THEN DOMAIN usess[k]
                                  ELSE {m \in DOMAIN usess[k] : m \in DOMAIN sess}
         /\ sess' = sess
      ]_vars

\* a mutating pass failed on one key and has removed an orphan from another
C15_Witness ==
    /\ last.op = "repair_failing" /\ ~report.dry
    /\ report.stats.user_sessions_checked = 2
    /\ report.stats.orphaned_sessions_removed = 1
    /\ report.at = "zrange"
    /\ usess[report.bad] # EmptyMap


\* ---------------------------------------------- expired state tokens (C16)
\* C16 (as claimed): a pop_state call made on a state whose TTL has elapsed
\* returns (absent, absent), in both modes, swept or not.
C16_ExpiredPopsAbsent ==
    pops.late = {}

\* C16 (amended): in the remote store a pop_state call made after the TTL
\* has elapsed returns (absent, absent); in the in-process fallback it does
\* so once clean_expired has removed the state, and otherwise returns the
\* stored metadata; in both modes the callback rejects what such a call
\* returned, as it rejects an unknown state.
C16_ExpiredStateRejected ==
    /\ cfg.redis => pops.late = {}
    /\ pops.late \cap pops.swept = {}
    /\ pops.lateOk = {}

\* the in-process store has handed out the metadata of an expired state
\* and the callback has rejected it
C16_Witness ==
    /\ ~cfg.redis
    /\ pops.lateRejected # {}


\* ------------------------------------------ unindexed sessions (C17)
\* C17 (as claimed): after a mutating run of the repair job every session
\* record is retrievable by its id and is a member of its identity's index.
C17_RepairIndexesSessions ==
    (last.op = "repair" /\ ~report.dry) =>
        \A sid \in DOMAIN sess :
            /\ get_session(Store, sid) = sess[sid]
            /\ sid \in IndexMembers(Store, user_index_id(sess[sid].email, sess[sid].sub))


\* ------------------------------------------- the bounded-age sweep (C18)
\* C18: a mutating run with the bounded-age sweep and threshold D removes
\* exactly the records created before now - D days, leaves the others as
\* they were, and ends with no index member that references a removed
\* record.
C18_SweepRemovesOverAge ==
    [][(last'.op = "repair" /\ report'.sweep /\ ~report'.dry) =>
         LET old == {sid \in DOMAIN sess :
                        sess[sid].ts + Ticks(report'.days * SECONDS_PER_DAY) < now}
         IN /\ DOMAIN sess' = (DOMAIN sess) \ old
            /\ \A sid \in DOMAIN sess' : sess'[sid] = sess[sid] /\ ttlAt'[sid] = ttlAt[sid]
            /\ \A k \in IndexKeys : (DOMAIN usess'[k]) \cap old = {}
      ]_vars

\* a sweep has removed one record, with its index membership, and left a
\* younger one in place
C18_Witness ==
    /\ last.op = "repair" /\ report.sweep /\ ~report.dry
    /\ Cardinality(last.gone) = 1
    /\ report.stats.orphaned_sessions_removed = 1
    /\ sess # EmptyMap
    /\ \E k \in IndexKeys : \E m \in DOMAIN usess[k] : m \in DOMAIN sess


\* ------------------------------------------ the legacy index fallback (C19)
\* the identities that carry both an e-mail address and a subject
FullIdentities == {l \in Logins : l[2] # "" /\ NormalizeEmail(l[3]) # ""}

\* the index stored under key k has no member at all
HasNoMember(S, k) ==
    IF cfg.redis THEN S.usess[k] = EmptyMap
    ELSE k \notin DOMAIN S.user_sessions \/ S.user_sessions[k] = <<>>

get_consistency_status_Strict(st) ==
    IF st.orphaned_sessions_found = 0 THEN "good"
    ELSE IF st.orphaned_sessions_removed > st.orphaned_sessions_found
    THEN "repaired"
    ELSE "needs_repair"

\* get_consistency_status() on the counters st of a finished run
get_consistency_status(st) ==
    IF st.orphaned_sessions_found = 0 THEN "good"
    ELSE IF st.orphaned_sessions_removed >= st.orphaned_sessions_found
    THEN "repaired"
    ELSE "needs_repair"

\* C20: the verdict of a repair report is "good" exactly when no orphan was
\* found, "repaired" exactly when orphans were found and at least as many
\* were removed, and "needs_repair" otherwise; a dry run that finds orphans
\* reports "needs_repair" and a failure-free mutating run never does.
C20_Verdict ==
    report.ran =>
        LET found == report.stats.orphaned_sessions_found
            removed == report.stats.orphaned_sessions_removed
            verdict == get_consistency_status(report.stats)
        IN /\ (verdict = "good") <=> (found = 0)
           /\ (verdict = "repaired") <=> (found > 0 /\ removed >= found)
           /\ (verdict = "needs_repair") <=> (found > 0 /\ removed < found)
           /\ (report.dry /\ found > 0) => verdict = "needs_repair"
           /\ ~report.dry => verdict # "needs_repair"

\* a mutating run has found orphans and removed them all
C20_Witness ==
    /\ report.ran /\ ~report.dry
    /\ report.stats.orphaned_sessions_found > 0
    /\ get_consistency_status(report.stats) = "repaired"


\* ------------------------------------------- the floor on the TTL (C21)
\* the step that ran last wrote a session record to the remote store
WroteRecord ==
    /\ cfg.redis
    /\ \/ last.op = "save"
       \/ last.op = "refresh" /\ last.ret # NoneExp

\* C21: every session record save_session writes to the remote store, on
\* creation and on a sliding rewrite, carries a TTL of a whole number of
\* seconds that is at least 60, whatever expiry was passed, an expiry in
\* the past included.
C21_TtlFloor ==
    WroteRecord =>
        /\ last.sid \in DOMAIN ttlAt
        /\ ttlAt[last.sid] - now >= Ticks(MIN_TTL)
        /\ (ttlAt[last.sid] - now) % TicksPerSecond = 0

\* a sliding rewrite was handed an expiry that lies in the past
\* and the record got the floor
C21_Witness ==
    /\ WroteRecord
    /\ last.op = "refresh"
    /\ Ticks(last.ret) < now
    /\ ttlAt[last.sid] = now + Ticks(MIN_TTL)


\* ------------------------------------------- delete is idempotent (C22)
\* C22: delete_session on an absent session id changes nothing, and two
\* calls on a present id leave the state one call leaves.
C22_DeleteIdempotent ==
    \A sid \in CapIds :
        /\ sid \notin DOMAIN sess => delete_session(Store, sid) = Store
        /\ delete_session(delete_session(Store, sid), sid) = delete_session(Store, sid)

\* a logout ran on a session an earlier logout had deleted, and an index
\* still names that session
C22_Witness ==
    /\ last.op = "logout" /\ last.data = NoSession
    /\ last.sid \in hist.deleted
    /\ last.gone = {}
    /\ \E k \in IndexKeys : last.sid \in IndexMembers(Store, k)


\* ==================================================================
\* The payment API (api/payment.py, api/upload.py) and the top-up tables
\* (database/payments.py)
\* ==================================================================
\* bounds: the checkout sessions Stripe issues, the webhook deliveries that
\* are processed, and how often the clock of these runs jumps
MaxCheckouts == 1
MaxDeliveries == 3
MaxPayJumps == 2

Checkouts == 1..MaxCheckouts
Workers == {"w1", "w2"}
NoCookie == 0
\* the seconds one jump of the clock covers, and the session lifetime
PayJump == 40
PayLifetime == 30
\* the coins and the price of the one plan on sale, and the amount the
\* provider reports in its events
PlanCoins == 5
PlanCents == 10
NoAmount == 0
EventCents == {NoAmount, 12}

\* rows of users joined with user_identities
UsersTable == {[id |-> 1, provider_sub |-> "u1", email |-> "a@x"],
               [id |-> 2, provider_sub |-> "u2", email |-> "b@x"]}
UserIds == {u.id : u \in UsersTable}
NoUser == [id |-> 0, provider_sub |-> "", email |-> ""]
\* who logs in on these runs
PayLogins == {<<"google", "u1", "A@x">>, <<"facebook", "u2", "">>}

\* get_user(sub_or_email): by provider_sub, else by e-mail
get_user(x) ==
    IF \E u \in UsersTable : u.provider_sub = x
    THEN CHOOSE u \in UsersTable : u.provider_sub = x
    ELSE IF \E u \in UsersTable : u.email = x
    THEN CHOOSE u \in UsersTable : u.email = x
    ELSE NoUser

\* _load_current_user(session_data)
load_current_user(data) ==
    LET ident == IF data.sub # "" THEN data.sub ELSE data.email
    IN IF ident = "" THEN NoUser
       ELSE IF get_user(ident) = NoUser /\ data.email # ""
       THEN get_user(data.email)
       ELSE get_user(ident)

\* _get_authenticated_session(): the session of the cookie, or none
get_authenticated_session(S, cookie, t) ==
    IF cookie = NoCookie THEN NoSession
    ELSE LET data == get_session(S, cookie)
         IN IF data = NoSession THEN NoSession
            ELSE IF data.exp # 0 /\ Ticks(data.exp) < t THEN NoSession
            ELSE data

NoTopup == [user_id |-> 0, status |-> "", amount_cents |-> 0, coins_total |-> 0]

\* get_topup_by_session(session_id)
get_topup_by_session(P, c) ==
    IF c \in DOMAIN P.topups THEN P.topups[c] ELSE NoTopup

\* an HTTP answer: the status code, the error named in the body, the
\* checkout session id and the top-up fields the body discloses
Undisclosed == [status |-> "", coins_total |-> 0, amount_cents |-> 0,
                new_balance |-> 0]
Answer(code, error) ==
    [code |-> code, error |-> error, session_id |-> 0, topup |-> Undisclosed]
NoAnswer == Answer(0, "")

\* a request handler leaves its answer and touches no session state; arg
\* is the checkout session id in the path of a status request
Answered(ep, cookie, arg, P) ==
    /\ pay' = P
    /\ last' = [op |-> ep, sid |-> cookie,
                data |-> IF cookie = NoCookie THEN NoSession
                         ELSE get_session(Store, cookie),
                ret |-> arg, gone |-> {}]
    /\ UNCHANGED <<cfg, now, sess, ttlAt, usess, user_sessions, stuck, inflight,
                   report, hist, work>>
    /\ UNCHANGED stateVars

\* the tables after record_checkout_session(user_id, session_id = c, ...,
\* status = 'pending'): INSERT ... ON CONFLICT DO UPDATE
record_checkout_session(P, user_id, c) ==
    [P EXCEPT !.topups =
        Put(@, c, [user_id |-> IF c \in DOMAIN P.topups THEN P.topups[c].user_id
                               ELSE user_id,
                   status |-> "pending", amount_cents |-> PlanCents,
                   coins_total |-> PlanCoins])]

\* POST /api/payment/create-checkout-session.  valid: the payload parses;
\* stripe_ok: stripe.checkout.Session.create returns; db_ok: the insert of
\* record_checkout_session succeeds
create_checkout_session(cookie, valid, stripe_ok, db_ok) ==
    LET data == get_authenticated_session(Store, cookie, now)
        user == load_current_user(data)
        c == Cardinality(pay.made) + 1
        made == [pay EXCEPT !.made = @ \cup {c}]
    IN IF ~pay.stripe_key
       THEN Answered("checkout", cookie, NoneExp, [pay EXCEPT !.resp = Answer(503, "stripe_not_configured")])
       ELSE IF data = NoSession
       THEN Answered("checkout", cookie, NoneExp, [pay EXCEPT !.resp = Answer(401, "not_authenticated")])
       ELSE IF user = NoUser
       THEN Answered("checkout", cookie, NoneExp, [pay EXCEPT !.resp = Answer(404, "user_not_found")])
       ELSE IF ~valid
       THEN Answered("checkout", cookie, NoneExp, [pay EXCEPT !.resp = Answer(400, "invalid")])
       ELSE IF ~stripe_ok
       THEN Answered("checkout", cookie, NoneExp, [pay EXCEPT !.resp = Answer(502, "stripe_error")])
       ELSE /\ c \in Checkouts
            /\ IF ~db_ok
               THEN Answered("checkout", cookie, NoneExp,
                             [made EXCEPT !.resp = Answer(500, "session_persist_failed")])
               ELSE Answered("checkout", cookie, NoneExp,
                             [record_checkout_session(made, user.id, c)
                                EXCEPT !.resp = [Answer(200, "") EXCEPT !.session_id = c]])

\* a status endpoint that answers whoever is logged in
payment_status_body_AnyUser(P, user, c) ==
    LET topup == get_topup_by_session(P, c)
    IN IF topup = NoTopup THEN Answer(404, "not_found")
       ELSE [Answer(200, "") EXCEPT !.topup =
                [status |-> topup.status, coins_total |-> topup.coins_total,
                 amount_cents |-> topup.amount_cents,
                 new_balance |-> P.balance[user.id]]]

\* the answer of payment_status to the authenticated user `user`
payment_status_body(P, user, c) ==
    LET topup == get_topup_by_session(P, c)
    IN IF topup = NoTopup THEN Answer(404, "not_found")
       ELSE IF topup.user_id # user.id THEN Answer(403, "forbidden")
       ELSE [Answer(200, "") EXCEPT !.topup =
                [status |-> topup.status, coins_total |-> topup.coins_total,
                 amount_cents |-> topup.amount_cents,
                 new_balance |-> P.balance[user.id]]]

\* GET /api/payment/status/<session_id>
payment_status(cookie, c) ==
    LET data == get_authenticated_session(Store, cookie, now)
        user == load_current_user(data)
    IN Answered("status", cookie, c,
          [pay EXCEPT !.resp =
              IF data = NoSession THEN Answer(401, "not_authenticated")
              ELSE IF user = NoUser THEN Answer(404, "user_not_found")
              ELSE payment_status_body(pay, user, c)])

\* GET /api/upload/faces/recent
recent_faces(cookie) ==
    LET data == get_authenticated_session(Store, cookie, now)
    IN Answered("faces", cookie, NoneExp,
          [pay EXCEPT !.resp =
              IF data = NoSession THEN Answer(401, "not_authenticated")
              ELSE Answer(200, "")])


\* ------------------------------------------------ the webhook's database calls
NoWorker == ""
IdleWorker == [pc |-> "idle", c |-> 0, amount |-> NoAmount, tx |-> FALSE,
               late |-> FALSE]

\* COALESCE(%(amount_cents)s, amount_cents)
Coalesce(amount, old) == IF amount = NoAmount THEN old ELSE amount

\* the row lock of top-up c is free for worker w: an UPDATE waits while the
\* row is locked by another transaction that has not ended
RowFree(P, c, w) ==
    IF c \in DOMAIN P.lock THEN P.lock[c] \in {NoWorker, w} ELSE TRUE

\* the same for the row of user u in users
UserRowFree(P, u, w) ==
    IF u \in DOMAIN P.ulock THEN P.ulock[u] \in {NoWorker, w} ELSE TRUE

\* a WHERE clause without "status <> 'completed'"
Matches_AnyStatus(P, c) == c \in DOMAIN P.topups

\* the row UPDATE coin_topups ... WHERE status <> 'completed' matches
Matches(P, c) == c \in DOMAIN P.topups /\ P.topups[c].status # "completed"

\* an update that has no "status <> 'completed'" in its WHERE clause
update_topup_row_Always(P, c, status, amount) ==
    IF c \in DOMAIN P.topups
    THEN [P EXCEPT !.topups[c].status = status,
                   !.topups[c].amount_cents = Coalesce(amount, @)]
    ELSE P

\* the tables after UPDATE coin_topups SET status, amount_cents ... WHERE
\* payment_tx_id = c AND status <> 'completed'
update_topup_row(P, c, status, amount) ==
    IF Matches(P, c)
    THEN [P EXCEPT !.topups[c].status = status,
                   !.topups[c].amount_cents = Coalesce(amount, @)]
    ELSE P

\* a worker's call has returned: what it returned and for which top-up
Returned(P, w, c, ret) ==
    [P EXCEPT !.w[w] = IdleWorker,
              !.ret = [by |-> w, c |-> c, some |-> ret],
              !.oks[c] = IF ret THEN @ + 1 ELSE @,
              !.lateOk = @ \/ (ret /\ P.w[w].late)]

\* a step of the webhook leaves the session store alone
PayStep(op, P) ==
    /\ pay' = P
    /\ last' = [op |-> op, sid |-> 0, data |-> NoSession, ret |-> NoneExp,
                gone |-> {}]
    /\ UNCHANGED <<cfg, now, sess, ttlAt, usess, user_sessions, stuck, inflight,
                   report, hist, work>>
    /\ UNCHANGED stateVars

\* The end of create_checkout_session as the webhook's runs see it: Stripe
\* has issued checkout session c for user and the row is recorded
checkout_recorded(user, c) ==
    /\ c \notin pay.made
    /\ PayStep("record_checkout_session",
               record_checkout_session([pay EXCEPT !.made = @ \cup {c}], user, c))

\* update_topup_status(session_id, status, amount_cents=amount), called by
\* the webhook for the expired, failed and canceled events; ok: the
\* statement does not raise
update_topup_status(c, status, amount, ok) ==
    /\ pay.calls < MaxDeliveries
    /\ RowFree(pay, c, NoWorker)
    /\ LET P1 == IF ok THEN update_topup_row(pay, c, status, amount) ELSE pay
       IN PayStep("update_topup_status",
                  [P1 EXCEPT !.calls = @ + 1,
                             !.ret = [by |-> NoWorker, c |-> c,
                                      some |-> ok /\ Matches(pay, c)]])

\* complete_topup, up to "conn = tx_conn or core_db.get_conn()": conn is
\* "tx" (a dedicated transaction), "shared" (the autocommit connection) or
\* "none"
ct_open(w, c, amount, conn) ==
    /\ pay.calls < MaxDeliveries
    /\ pay.w[w].pc = "idle"
    /\ LET P1 == [pay EXCEPT !.calls = @ + 1,
                             !.w[w] = [pc |-> "update", c |-> c, amount |-> amount,
                                       tx |-> conn = "tx",
                                       late |-> pay.oks[c] > 0],
                             !.raced = @ \/ \E v \in Workers \ {w} :
                                               pay.w[v].pc # "idle" /\ pay.w[v].c = c]
       IN PayStep("ct_open", IF conn = "none" THEN Returned(P1, w, c, FALSE) ELSE P1)

\* the first statement: UPDATE coin_topups SET status = 'completed' ...
\* RETURNING user_id, coins_total
ct_update(w, ok) ==
    /\ pay.w[w].pc = "update"
    /\ RowFree(pay, pay.w[w].c, w)
    /\ LET me == pay.w[w]
       IN PayStep("ct_update",
            IF ~ok \/ ~Matches(pay, me.c) THEN Returned(pay, w, me.c, FALSE)
            ELSE IF me.tx
            THEN [pay EXCEPT !.lock = Put(@, me.c, w), !.w[w].pc = "balance"]
            ELSE [update_topup_row(pay, me.c, "completed", me.amount)
                    EXCEPT !.w[w].pc = "balance"])

\* the second statement: UPDATE users SET coin_balance = coin_balance + n
ct_balance(w, ok) ==
    /\ pay.w[w].pc = "balance"
    /\ LET me == pay.w[w]
           user == pay.topups[me.c].user_id
           coins == pay.topups[me.c].coins_total
       IN /\ UserRowFree(pay, user, w)
          /\ PayStep("ct_balance",
               IF ~ok
               THEN Returned([pay EXCEPT !.lock = Drop(@, IF me.tx THEN {me.c} ELSE {})],
                             w, me.c, FALSE)
               ELSE IF me.tx
               THEN [pay EXCEPT !.ulock = Put(@, user, w), !.w[w].pc = "commit"]
               ELSE Returned([pay EXCEPT !.balance[user] = @ + coins,
                                         !.credits[me.c] = @ + 1,
                                         !.lateCredit = @ \/ me.late],
                             w, me.c, TRUE))

\* tx_conn.commit() after both statements, or the rollback when it raises
ct_commit(w, ok) ==
    /\ pay.w[w].pc = "commit"
    /\ LET me == pay.w[w]
           user == pay.topups[me.c].user_id
           coins == pay.topups[me.c].coins_total
           freed == [pay EXCEPT !.lock = Drop(@, {me.c}), !.ulock = Drop(@, {user})]
       IN PayStep("ct_commit",
            IF ~ok THEN Returned(freed, w, me.c, FALSE)
            ELSE Returned([update_topup_row(freed, me.c, "completed", me.amount)
                             EXCEPT !.balance[user] = @ + coins,
                                    !.credits[me.c] = @ + 1,
                                    !.lateCredit = @ \/ me.late],
                          w, me.c, TRUE))

\* ------------------------------------------------ runs of the payment API
InitTables ==
    \E key \in BOOLEAN :
       pay = [on |-> TRUE, stripe_key |-> key, made |-> {},
              topups |-> EmptyMap, balance |-> [u \in UserIds |-> 0],
              lock |-> EmptyMap, ulock |-> EmptyMap,
              w |-> [w \in Workers |-> IdleWorker],
              resp |-> NoAnswer,
              ret |-> [by |-> NoWorker, c |-> 0, some |-> FALSE],
              calls |-> 0,
              credits |-> [c \in Checkouts |-> 0],
              oks |-> [c \in Checkouts |-> 0],
              lateOk |-> FALSE, lateCredit |-> FALSE, raced |-> FALSE]

InitGateCfg ==
    cfg \in [redis : BOOLEAN, MAX_USER_SESSIONS : {0},
             SESSION_SLIDING_ENABLED : {FALSE},
             SESSION_SLIDING_SECONDS : {120},
             SESSION_ABSOLUTE_SECONDS : {0},
             SESSION_LIST_RETURN_LIMIT : {20}]

\* the protected endpoints and the sessions that open them
InitGate ==
    /\ InitGateCfg
    /\ InitStore
    /\ InitTables
    /\ work = NoWork

NextGate ==
    \/ /\ now = 0
       /\ inflight = EmptyMap
       /\ \E who \in PayLogins, sid \in SessionIds :
             callback_register(who[1], who[2], who[3], sid, PayLifetime)
    \/ \E sid \in DOMAIN inflight : callback_save(sid)
    \/ \E sid \in SessionIds : logout(sid)
    \/ /\ now < MaxPayJumps * Ticks(PayJump)
       /\ Tick(Ticks(PayJump))
    \/ \E cookie \in SessionIds \cup {NoCookie}, valid, stripe_ok, db_ok \in BOOLEAN :
          create_checkout_session(cookie, valid, stripe_ok, db_ok)
    \/ \E cookie \in SessionIds \cup {NoCookie}, c \in Checkouts :
          payment_status(cookie, c)
    \/ \E cookie \in SessionIds \cup {NoCookie} : recent_faces(cookie)

SpecGate == InitGate /\ [][NextGate]_vars

\* the webhook deliveries and the tables they write
InitPay ==
    /\ cfg \in [redis : {TRUE}, MAX_USER_SESSIONS : {0},
                SESSION_SLIDING_ENABLED : {FALSE},
                SESSION_SLIDING_SECONDS : {120},
                SESSION_ABSOLUTE_SECONDS : {0},
                SESSION_LIST_RETURN_LIMIT : {20}]
    /\ InitStore
    /\ InitTables
    /\ work = NoWork

NextPay ==
    \/ \E user \in UserIds, c \in Checkouts : checkout_recorded(user, c)
    \/ \E c \in Checkouts, status \in {"expired", "canceled"}, amount \in EventCents,
          ok \in BOOLEAN :
          update_topup_status(c, status, amount, ok)
    \/ \E w \in Workers, c \in Checkouts, amount \in EventCents,
          conn \in {"tx", "shared", "none"} :
          ct_open(w, c, amount, conn)
    \/ \E w \in Workers, ok \in BOOLEAN : ct_update(w, ok)
    \/ \E w \in Workers, ok \in BOOLEAN : ct_balance(w, ok)
    \/ \E w \in Workers, ok \in BOOLEAN : ct_commit(w, ok)

SpecPay == InitPay /\ [][NextPay]_vars

\* --------------------------------------- the protected endpoints (C23)
ProtectedEndpoints == {"checkout", "status", "faces"}

\* the request the step served carried no cookie, a cookie without a
\* session record, or a cookie whose record has exp before now
Unauthenticated ==
    \/ last'.sid = NoCookie
    \/ last'.data = NoSession
    \/ last'.data.exp # 0 /\ Ticks(last'.data.exp) < now

\* the step changed nothing but the answer
NoSideEffect ==
    /\ pay' = [pay EXCEPT !.resp = pay'.resp]
    /\ UNCHANGED <<sess, ttlAt, usess, user_sessions, stuck, inflight>>

\* C23: a protected endpoint (checkout-session creation, payment status,
\* recent faces) answers 401 and has no side effect whenever the request
\* has no cookie, a cookie whose record is absent, or a cookie whose record
\* has exp earlier than now.
C23_ProtectedNeeds401 ==
    [][(last'.op \in ProtectedEndpoints /\ Unauthenticated) =>
          (pay'.resp.code = 401 /\ NoSideEffect)]_vars


\* ------------------------------------------- coins credited once (C24)
RECURSIVE CreditedTo(_, _, _)
\* the coins the completed calls have credited to user u for the top-ups cs
CreditedTo(P, u, cs) ==
    IF cs = {} THEN 0
    ELSE LET c == CHOOSE x \in cs : TRUE
         IN (IF c \in DOMAIN P.topups /\ P.topups[c].user_id = u
             THEN P.credits[c] * P.topups[c].coins_total ELSE 0)
            + CreditedTo(P, u, cs \ {c})

\* C24: for one recorded checkout session, over every sequence and
\* interleaving of complete_topup calls, the user's balance is increased by
\* the top-up's coins_total once and no more; only the call that credits
\* returns a result, and a call made after it returns None and changes no
\* balance.
C24_CreditedOnce ==
    /\ \A c \in Checkouts :
          /\ pay.credits[c] <= 1
          /\ pay.oks[c] = pay.credits[c]
    /\ \A u \in UserIds : pay.balance[u] = CreditedTo(pay, u, Checkouts)
    /\ ~pay.lateOk
    /\ ~pay.lateCredit

\* two deliveries for one checkout session were in flight together, one of
\* them credited the coins, and a third one, made after that, came back
\* with None
C24_Witness ==
    /\ pay.raced
    /\ \E c \in Checkouts :
          /\ pay.credits[c] = 1
          /\ pay.balance[pay.topups[c].user_id] = pay.topups[c].coins_total
          /\ pay.ret = [by |-> pay.ret.by, c |-> c, some |-> FALSE]
    /\ pay.ret.by # NoWorker
    /\ pay.calls = 3
    /\ \A w \in Workers : pay.w[w].pc = "idle"


\* ------------------------------------------- completion is atomic (C25)
\* no complete_topup call is at work on checkout session c
Settled(c) == \A w \in Workers : pay.w[w].pc = "idle" \/ pay.w[w].c # c

\* C25: whatever the outcome of complete_topup, a failure of the balance
\* update and the fallback to the shared autocommit connection included,
\* the top-up is 'completed' and the balance credited, or neither.
C25_CompletionAtomic ==
    \A c \in Checkouts :
        (Settled(c) /\ c \in DOMAIN pay.topups) =>
            (pay.topups[c].status = "completed" <=> pay.credits[c] = 1)


\* ------------------------------------- completed top-ups stay as they are (C26)
\* C26: update_topup_status on a top-up whose status is 'completed' changes
\* neither its status nor its amount and returns None, whichever event
\* (expired, canceled) and amount the webhook delivers.
C26_CompletedIsFinal ==
    [][(last'.op = "update_topup_status"
          /\ pay'.ret.c \in DOMAIN pay.topups
          /\ pay.topups[pay'.ret.c].status = "completed") =>
            /\ pay'.topups = pay.topups
            /\ pay'.balance = pay.balance
            /\ ~pay'.ret.some
      ]_vars

\* an expired or canceled event with another amount arrived for a top-up
\* that was completed and credited, and left it as it was
C26_Witness ==
    /\ last.op = "update_topup_status"
    /\ ~pay.ret.some
    /\ pay.ret.c \in DOMAIN pay.topups
    /\ pay.topups[pay.ret.c].status = "completed"
    /\ pay.topups[pay.ret.c].amount_cents = PlanCents
    /\ pay.credits[pay.ret.c] = 1


\* ------------------------------------- top-ups are shown to their owner (C27)
\* the user the request of the step was authenticated as
Requester == load_current_user(get_authenticated_session(Store, last'.sid, now))

\* C27: the payment status endpoint answers an authenticated user whose id
\* is not the top-up's user_id with 403 and discloses no field of the
\* top-up.
C27_OwnerOnly ==
    [][(/\ last'.op = "status"
        /\ Requester # NoUser
        /\ last'.ret \in DOMAIN pay.topups
        /\ pay.topups[last'.ret].user_id # Requester.id)
          => pay'.resp = Answer(403, "forbidden")
      ]_vars

\* a logged-in user asked for the status of another user's top-up
C27_Witness ==
    /\ last.op = "status"
    /\ last.data # NoSession
    /\ last.ret \in DOMAIN pay.topups
    /\ load_current_user(last.data) # NoUser
    /\ load_current_user(last.data).id # pay.topups[last.ret].user_id
    /\ pay.resp.code = 403


\* ==================================================================
\* Request workers that overlap inside SessionManager calls (Redis mode):
\* every backend call is a step of its own
\* ==================================================================
\* bound on the clock of these runs (ticks)
MaxRaceTicks == 3

Threads == {"t1", "t2"}
RaceIdx == "u1"
RaceLifetime == 60
IdleThread == [pc |-> "idle", sid |-> 0, over |-> 0, old |-> <<>>, todo |-> <<>>,
               data |-> NoSession]

\* what a step of thread t leaves behind: the store S1, the thread's own
\* state and the histories
RaceStep(op, t, sid, S1, me, reg, born, infl) ==
    /\ SetStore(S1)
    /\ work' = [work EXCEPT !.t[t] = me]
    /\ inflight' = infl
    /\ Record(S1, reg, born, hist.slid)
    /\ Did(op, sid, NoSession, NoneExp, S1)
    /\ report' = NoReport
    /\ UNCHANGED <<cfg, now, pay>>
    /\ UNCHANGED stateVars

\* the callback up to the zadd of add_session_to_user: one login per
\* instant, so the scores of an index are distinct
add_zadd(t, sid) ==
    /\ work.t[t].pc = "idle"
    /\ sid \notin DOMAIN hist.reg
    /\ \A s \in DOMAIN hist.reg : hist.reg[s] # now
    /\ LET payload == [sub |-> RaceIdx, email |-> "", ts |-> now,
                       exp |-> IntSec(now + Ticks(RaceLifetime))]
           S1 == [Store EXCEPT !.usess[RaceIdx] = Put(@, sid, now)]
       IN RaceStep("zadd", t, sid, S1,
                   [IdleThread EXCEPT !.sid = sid,
                                      !.pc = IF cfg.MAX_USER_SESSIONS > 0
                                             THEN "zcard" ELSE "save"],
                   Put(hist.reg, sid, now), hist.born, Put(inflight, sid, payload))

\* over = _redis.zcard(key) - MAX_USER_SESSIONS
add_zcard(t) ==
    /\ work.t[t].pc = "zcard"
    /\ LET over == Cardinality(DOMAIN usess[RaceIdx]) - cfg.MAX_USER_SESSIONS
       IN RaceStep("zcard", t, work.t[t].sid, Store,
                   [work.t[t] EXCEPT !.over = over,
                                     !.pc = IF over > 0 THEN "zrange" ELSE "save"],
                   hist.reg, hist.born, inflight)

\* old = _redis.zrange(key, 0, over-1)
add_zrange(t) ==
    /\ work.t[t].pc = "zrange"
    /\ LET old == ZRangeTo(usess[RaceIdx], work.t[t].over - 1)
       IN RaceStep("zrange", t, work.t[t].sid, Store,
                   [work.t[t] EXCEPT !.old = old, !.todo = old,
                                     !.pc = IF old = <<>> THEN "save" ELSE "delete"],
                   hist.reg, hist.born, inflight)

\* for sid in old: SessionManager.delete_session(sid), one pass of the loop
add_delete(t) ==
    /\ work.t[t].pc = "delete"
    /\ LET me == work.t[t]
           S1 == delete_session(Store, Head(me.todo))
       IN /\ work' = [work EXCEPT !.t[t] = [me EXCEPT !.todo = Tail(@),
                                                       !.pc = IF Tail(me.todo) = <<>>
                                                              THEN "zrem" ELSE "delete"],
                                  !.evicted = @ \cup {Head(me.todo)}]
          /\ SetStore(S1)
          /\ Keep(S1)
          /\ Did("evict", Head(me.todo), NoSession, NoneExp, S1)
          /\ report' = NoReport
          /\ UNCHANGED <<cfg, now, pay, inflight>>
          /\ UNCHANGED stateVars

\* _redis.zrem(key, *old)
add_zrem(t) ==
    /\ work.t[t].pc = "zrem"
    /\ RaceStep("zrem", t, work.t[t].sid,
                [Store EXCEPT !.usess[RaceIdx] = Drop(@, Elems(work.t[t].old))],
                [work.t[t] EXCEPT !.pc = "save"],
                hist.reg, hist.born, inflight)

\* the callback's save_session, after add_session_to_user has returned
add_save(t) ==
    /\ work.t[t].pc = "save"
    /\ LET sid == work.t[t].sid
           payload == inflight[sid]
       IN RaceStep("save", t, sid,
                   save_session(Store, sid, payload, payload.exp, now),
                   IdleThread, hist.reg,
                   Put(hist.born, sid, [at |-> now, exp |-> payload.exp,
                                        ts |-> payload.ts]),
                   Drop(inflight, {sid}))

\* the clock of these runs
RaceTick ==
    /\ now < MaxRaceTicks
    /\ Tick(1)

InitRace ==
    /\ cfg \in [redis : {TRUE}, MAX_USER_SESSIONS : Caps,
                SESSION_SLIDING_ENABLED : {FALSE},
                SESSION_SLIDING_SECONDS : {120},
                SESSION_ABSOLUTE_SECONDS : {0},
                SESSION_LIST_RETURN_LIMIT : {20}]
    /\ InitStore
    /\ pay = NoPay
    /\ work = [on |-> TRUE, t |-> [t \in Threads |-> IdleThread], evicted |-> {}]

NextRace ==
    \/ \E t \in Threads, sid \in CapIds : add_zadd(t, sid)
    \/ \E t \in Threads : add_zcard(t)
    \/ \E t \in Threads : add_zrange(t)
    \/ \E t \in Threads : add_delete(t)
    \/ \E t \in Threads : add_zrem(t)
    \/ \E t \in Threads : add_save(t)
    \/ RaceTick

SpecRace == InitRace /\ [][NextRace]_vars

\* --------------------------------------- eviction under concurrency (C28)
\* every login of the run has finished
Quiet == \A t \in Threads : work.t[t].pc = "idle"

\* the registered sessions that are not among the n newest
OldestExcess(n) ==
    {s \in DOMAIN hist.reg :
        Cardinality({r \in DOMAIN hist.reg : hist.reg[r] > hist.reg[s]}) >= n}

\* C28: under every interleaving of concurrent add_session_to_user calls
\* for one identity with cap N in the remote store, when more than N
\* sessions were registered the index ends with exactly N members, and no
\* session outside the oldest excess members has its record deleted.
C28_EvictionExact ==
    (Quiet /\ Cardinality(DOMAIN hist.reg) > cfg.MAX_USER_SESSIONS) =>
        /\ Cardinality(DOMAIN usess[RaceIdx]) = cfg.MAX_USER_SESSIONS
        /\ work.evicted \subseteq OldestExcess(cfg.MAX_USER_SESSIONS)


\* --------------------------- repair and lazy cleanup against logins (C29)
\* C29: whatever the interleaving of a mutating repair run or of the lazy
\* cleanup of list_user_sessions with login callbacks, a session whose
\* login has completed and whose record exists is a member of its
\* identity's index (no cap is configured, so nothing is evicted).
C29_CompletedLoginListed ==
    cfg.MAX_USER_SESSIONS = 0 =>
        \A sid \in DOMAIN hist.born :
            sid \in DOMAIN sess =>
                sid \in IndexMembers(Store,
                                     user_index_id(sess[sid].email, sess[sid].sub))


\* ------------------------------- session_info overlapping a logout
\* session_info up to and including its read: data = get_session(sid), and
\* the delete of a session found expired
info_read(t, sid) ==
    /\ Runnable
    /\ work.t[t].pc = "idle"
    /\ sid \in Issued
    /\ LET data == get_session(Store, sid)
           dead == data # NoSession /\ data.exp # 0 /\ Ticks(data.exp) < now
           S1 == IF dead THEN delete_session(Store, sid) ELSE Store
       IN /\ SetStore(S1)
          /\ work' = [work EXCEPT !.t[t] =
                        IF data = NoSession \/ dead THEN IdleThread
                        ELSE [IdleThread EXCEPT !.pc = "refresh", !.sid = sid,
                                                !.data = data]]
          /\ Keep(S1)
          /\ Did(IF data = NoSession THEN "session_info_absent"
                 ELSE IF dead THEN "session_info_expired" ELSE "info_read",
                 sid, data, NoneExp, S1)
    /\ report' = NoReport
    /\ UNCHANGED <<cfg, now, inflight, pay>>
    /\ UNCHANGED stateVars

\* the rest of session_info: refresh_session_if_needed(sid, data) on the
\* record that was read
info_refresh(t) ==
    /\ Runnable
    /\ work.t[t].pc = "refresh"
    /\ LET sid == work.t[t].sid
           data == work.t[t].data
           S1 == refresh_session_if_needed(Store, sid, data, now)
       IN /\ SetStore(S1)
          /\ work' = [work EXCEPT !.t[t] = IdleThread]
          /\ Record(S1, hist.reg, hist.born,
                    IF RefreshSkips(data, now) THEN hist.slid ELSE hist.slid \cup {sid})
          /\ Did("refresh", sid, data,
                 IF S1.stuck THEN Blocked ELSE RefreshResult(data, now), S1)
    /\ report' = NoReport
    /\ UNCHANGED <<cfg, now, inflight, pay>>
    /\ UNCHANGED stateVars

InitInfo ==
    /\ cfg \in [redis : BOOLEAN, MAX_USER_SESSIONS : {0},
                SESSION_SLIDING_ENABLED : BOOLEAN,
                SESSION_SLIDING_SECONDS : SlideWindows,
                SESSION_ABSOLUTE_SECONDS : SlideCeilings,
                SESSION_LIST_RETURN_LIMIT : {20}]
    /\ InitStore
    /\ pay = NoPay
    /\ work = [on |-> TRUE, t |-> [t \in Threads |-> IdleThread], evicted |-> {}]

NextInfo ==
    \/ /\ now <= MaxLoginAt
       /\ \E raw \in RawEmails, L \in SlideLifetimes :
             callback_register("google", "u1", raw, SlideId, L)
    \/ /\ SlideId \in DOMAIN inflight
       /\ callback_save(SlideId)
    \/ \E t \in Threads : info_read(t, SlideId)
    \/ \E t \in Threads : info_refresh(t)
    \/ logout(SlideId)
    \/ RaceTick

SpecInfo == InitInfo /\ [][NextInfo]_vars

\* ------------------------------------- a logout is not undone (C30)
\* C30: once delete_session of a session has completed, get_session
\* returns absent for it in every later state, also when a session_info
\* request read the record before the delete and runs
\* refresh_session_if_needed after it.
C30_DeletedStaysAbsent ==
    \A sid \in hist.deleted : get_session(Store, sid) = NoSession



\* ---------------------------------------------------------------- C31
\* C31: in the in-process fallback no session operation waits for _lock
\* while its own thread holds it: no thread is ever stuck inside a
\* SessionManager call, whatever the cap and whatever the record.
C31_NoSelfDeadlock == ~stuck


\* ---------------------------------------------------------------- C32
\* a member of index k whose record was written and is gone
Orphaned(k, sid) ==
    /\ sid \in IndexMembers(Store, k)
    /\ sid \in DOMAIN hist.born
    /\ sid \notin DOMAIN sess

\* the call that ran last is list_user_sessions for the identity indexed
\* under k, or a mutating run of the repair job
ListedFor(k) == last.op = "sessions_list" /\ LastIdx = k
Repaired == last.op = "repair" /\ ~report.dry

\* Logins, logouts, expiry, the listing and the mutating orphan pass.  The
\* clock is not the program's to stop: time passes (up to the bound) whatever
\* the requests do.  Which requests recur is stated by the property.
HealClock ==
    /\ now < MaxMinutes * Ticks(MIN_TTL)
    /\ Tick(Ticks(MIN_TTL))

InitHeal ==
    /\ cfg \in [redis : BOOLEAN, MAX_USER_SESSIONS : {0},
                SESSION_SLIDING_ENABLED : {FALSE},
                SESSION_SLIDING_SECONDS : {120},
                SESSION_ABSOLUTE_SECONDS : {0},
                SESSION_LIST_RETURN_LIMIT : {1, 20}]
    /\ InitStore
    /\ pay = NoPay
    /\ work = NoWork

NextHeal ==
    \/ /\ Cardinality(DOMAIN inflight) < MaxInflight
       /\ \E who \in Logins, sid \in SessionIds, L \in Lifetimes :
             callback_register(who[1], who[2], who[3], sid, L)
    \/ \E sid \in DOMAIN inflight :
          /\ now <= inflight[sid].ts + MaxSaveDelay
          /\ callback_save(sid)
    \/ \E sid \in SessionIds : sessions_list(sid)
    \/ \E sid \in SessionIds : logout(sid)
    \/ repair(FALSE, FALSE, 0)
    \/ HealClock

SpecHeal == InitHeal /\ [][NextHeal]_vars /\ WF_vars(HealClock)

\* C32: if list_user_sessions for an identity or the repair job keeps being
\* run, every orphaned member of that identity's index is eventually no
\* longer a member, in both stores and whatever the listing limit.
C32_OrphansEventuallyRemoved ==
    \A k \in IndexKeys : \A sid \in SessionIds :
        ([]<>(ListedFor(k) \/ Repaired)) =>
            (Orphaned(k, sid) ~> (sid \notin IndexMembers(Store, k)))


\* ---------------------------------------------------------------- C33
\* C33: in the in-process fallback, when clean_sessions returns the session
\* map holds no record whose exp is earlier than now, no index list holds
\* an id the sweep removed, and no index key has an empty list.
C33_SweepLeavesNoExpired ==
    [][(last'.op = "clean_sessions" /\ ~cfg.redis) =>
         /\ \A sid \in DOMAIN sess' : Ticks(sess'[sid].exp) >= now'
         /\ \A k \in DOMAIN user_sessions' :
               /\ Elems(user_sessions'[k]) \cap last'.gone = {}
               /\ user_sessions'[k] # <<>>
      ]_vars

\* the sweep has removed an expired session and a live session is still
\* listed
C33_Witness ==
    /\ last.op = "clean_sessions" /\ ~cfg.redis
    /\ \E sid \in last.gone :
          /\ hist.born[sid].exp < IntSec(now)
          /\ sid \in DOMAIN hist.reg
    /\ \E k \in DOMAIN user_sessions : \E m \in Elems(user_sessions[k]) :
          m \in DOMAIN sess


\* ---------------------------------------------------------------- C34
\* C34: whenever refresh_session_if_needed rewrites the record, the new exp
\* is at least the previous exp and later than now, with or without an
\* absolute lifetime ceiling.
C34_RefreshNeverLowers ==
    [][(last'.op = "refresh" /\ last'.ret # NoneExp /\ last'.ret # Blocked) =>
         /\ last'.ret >= CurExp(last'.data, now)
         /\ Ticks(last'.ret) > now
      ]_vars


\* ------------------------------------------ provider callbacks and tokens
Providers == {"google", "facebook"}

\* the state check of a provider's callback on what pop_state returned:
\* Google: "not meta or meta.get('exp', 0) < time.time() or not verifier",
\* Facebook: "not meta or meta.get('exp', 0) < time.time()" -> invalid_state
CallbackRejects(via, meta, verifier, t) ==
    \/ meta = NoMeta
    \/ Ticks(meta.exp) < t
    \/ via = "google" /\ verifier \in {NoVerifier, ""}

\* the state check that ran last (none yet)
NoCheck == [on |-> TRUE, via |-> "", state |-> "", meta |-> NoMeta,
            verifier |-> NoVerifier, reason |-> ""]

\* GET /api/auth/<via>/callback?state=st, up to the state check: pop_state
\* (one MULTI/EXEC or one critical section) and the test of its result
state_callback(via, st) ==
    /\ cfg.redis \/ LockFree(state_lock)
    /\ LET meta == IF st \in DOMAIN state_store THEN state_store[st] ELSE NoMeta
           verifier == IF st \in DOMAIN code_verifiers THEN code_verifiers[st]
                       ELSE NoVerifier
       IN work' = [on |-> TRUE, via |-> via, state |-> st, meta |-> meta,
                   verifier |-> verifier,
                   reason |-> IF CallbackRejects(via, meta, verifier, now)
                              THEN "invalid_state" ELSE "accepted"]
    /\ state_store' = Drop(state_store, {st})
    /\ code_verifiers' = Drop(code_verifiers, {st})
    /\ stateTtlAt' = Drop(stateTtlAt, {st})
    /\ UNCHANGED <<cfg, now, state_lock, cb, pops>>
    /\ UNCHANGED <<sessionVars, pay>>

InitCross ==
    /\ cfg \in [redis : BOOLEAN, MAX_USER_SESSIONS : {0},
                SESSION_SLIDING_ENABLED : {FALSE},
                SESSION_SLIDING_SECONDS : {120},
                SESSION_ABSOLUTE_SECONDS : {0},
                SESSION_LIST_RETURN_LIMIT : {20}]
    /\ InitStore
    /\ pay = NoPay
    /\ work = NoCheck

NextCross ==
    \/ \E st \in States, provider \in Providers : save_state(st, provider)
    \/ \E via \in Providers, st \in States : state_callback(via, st)
    \/ clean_expired
    \/ /\ now % Ticks(STATE_TTL) = 0
       /\ Tick(1)
    \/ /\ now < MaxStateJumps * Ticks(STATE_TTL)
       /\ Tick(Ticks(STATE_TTL))

SpecCross == InitCross /\ [][NextCross]_vars

\* ---------------------------------------------------------------- C35
\* C35: a callback given a stored token that was saved for the other
\* provider answers invalid_state and leaves the token in the store.
C35_TokenBoundToProvider ==
    [][\A via \in Providers, st \in States :
          (/\ state_callback(via, st)
           /\ st \in DOMAIN state_store
           /\ state_store[st].provider # via) =>
              /\ work'.reason = "invalid_state"
              /\ st \in DOMAIN state_store'
      ]_vars


\* ------------------------------------- records that carry no subject
\* A Redis keyspace that already holds session records without 'sub' (the
\* routes provide for them: "if not sub: return 401" in sessions_list,
\* "data.get('sub') or data.get('email')" in session_info), indexed under
\* their e-mail, their cookies issued.
LegacyLifetime == 600
LegacyRecord == [sub |-> "", email |-> "a@x", ts |-> 0, exp |-> LegacyLifetime]

InitLegacy ==
    /\ cfg \in [redis : {TRUE}, MAX_USER_SESSIONS : {0},
                SESSION_SLIDING_ENABLED : {FALSE},
                SESSION_SLIDING_SECONDS : {120},
                SESSION_ABSOLUTE_SECONDS : {0},
                SESSION_LIST_RETURN_LIMIT : {20}]
    /\ \E old \in SUBSET SessionIds :
          /\ now = 0
          /\ sess = [sid \in old |-> LegacyRecord]
          /\ ttlAt = [sid \in old |-> Ticks(LegacyLifetime)]
          /\ usess = [k \in IndexKeys |->
                        IF k = "a@x" THEN [sid \in old |-> 0] ELSE EmptyMap]
          /\ hist = [reg |-> [sid \in old |-> 0],
                     born |-> [sid \in old |-> [at |-> 0, exp |-> LegacyLifetime,
                                                ts |-> 0]],
                     slid |-> {}, deleted |-> {}, seq |-> TRUE]
    /\ user_sessions = EmptyMap
    /\ stuck = FALSE
    /\ inflight = EmptyMap
    /\ report = NoReport
    /\ last = [op |-> "init", sid |-> 0, data |-> NoSession, ret |-> NoneExp,
               gone |-> {}]
    /\ state_store = EmptyMap
    /\ code_verifiers = EmptyMap
    /\ stateTtlAt = EmptyMap
    /\ state_lock = NoThread
    /\ cb = [c \in Callbacks |-> Idle]
    /\ pops = [saved |-> EmptyMap, at |-> EmptyMap, calls |-> 0,
               some |-> [st \in States |-> 0], raced |-> {}, lost |-> {},
               late |-> {}, lateOk |-> {}, lateRejected |-> {}, swept |-> {}]
    /\ pay = NoPay
    /\ work = NoWork

NextLegacy ==
    \/ /\ Cardinality(DOMAIN inflight) < MaxInflight
       /\ \E who \in Logins, sid \in SessionIds, L \in Lifetimes :
             callback_register(who[1], who[2], who[3], sid, L)
    \/ \E sid \in DOMAIN inflight :
          /\ now <= inflight[sid].ts + MaxSaveDelay
          /\ callback_save(sid)
    \/ \E sid \in SessionIds : sessions_list(sid)
    \/ \E sid \in SessionIds, target \in SessionIds : logout_session(sid, target)
    \/ \E sid \in SessionIds : logout(sid)
    \/ /\ now < MaxMinutes * Ticks(MIN_TTL)
       /\ Tick(Ticks(MIN_TTL))

SpecLegacy == InitLegacy /\ [][NextLegacy]_vars

C37_LogoutAllLeavesNone ==
    [][last'.op = "logout_all" =>
         \A s \in DOMAIN sess' : sess'[s].sub # last'.data.sub
      ]_vars


\* ---------------------------------------------------------------- C38
\* C38: whenever no thread is inside a critical section of StateManager,
\* every token has a metadata record exactly when it has a verifier record
\* (in the remote store every operation is one MULTI/EXEC, so always).
C38_MetaIffVerifier ==
    (cfg.redis \/ state_lock = NoThread) =>
        DOMAIN state_store = DOMAIN code_verifiers

\* one token has been popped and returned, another is still stored with
\* both its records
C38_Witness ==
    /\ state_lock = NoThread
    /\ \E st \in DOMAIN state_store : st \in DOMAIN code_verifiers
    /\ \E st \in DOMAIN pops.saved :
          /\ st \notin DOMAIN state_store
          /\ st \notin DOMAIN code_verifiers
          /\ pops.some[st] > 0


\* ---------------------------------------------------------------- C39
\* C39: in the in-process fallback every session id occurs at most once in
\* each user index list.
C39_ListedOnce ==
    ~cfg.redis =>
        \A k \in DOMAIN user_sessions :
            Cardinality(Elems(user_sessions[k])) = Len(user_sessions[k])


\* ---------------------------------------------------------------- C40
\* C40: when a repair job instance has finished (the orphan pass, or the
\* orphan pass and the bounded-age sweep), its counters satisfy
\* total_sessions_checked = valid_sessions_found + orphaned_sessions_found,
\* orphaned_sessions_removed <= orphaned_sessions_found, nothing is counted
\* as removed in dry-run mode, and user_sessions_checked is the number of
\* distinct index keys it scanned.
C40_CountersConsistent ==
    [][last'.op = "repair" =>
         LET st == report'.stats
         IN /\ st.total_sessions_checked =
                  st.valid_sessions_found + st.orphaned_sessions_found
            /\ st.orphaned_sessions_removed <= st.orphaned_sessions_found
            /\ report'.dry => /\ st.orphaned_sessions_removed = 0
                              /\ st.empty_user_sessions_removed = 0
            /\ st.user_sessions_checked =
                  Cardinality({k \in IndexKeys : usess[k] # EmptyMap})
      ]_vars

=============================================================================
